---- MODULE Spec2Model ----
(***************************************************************************)
(* ZvukDownloader: the concurrent acquisition pipeline of                  *)
(* src/zvuk_multibot.py.                                                   *)
(*                                                                         *)
(* Tasks are asyncio coroutines on one event loop.  A step of the model is *)
(* the code a task runs between two suspension points (await), so every    *)
(* action is atomic exactly where the event loop makes the code atomic.    *)
(*                                                                         *)
(*   SpecRequest  several tasks call ZvukMultiBot.make_request at once     *)
(*   Spec         ZvukMultiBot.download_release: the release's track flows *)
(*                (download_track), each calling make_request              *)
(***************************************************************************)
EXTENDS Integers, Sequences, FiniteSets, TLC

(* ------------------------------ bounds --------------------------------- *)

\* Number of tasks that call make_request at once in SpecRequest.
NumCallers == 3

\* Length of the release's track_ids in Spec.
NumTracks == 2

\* config.max_retries of the runs of SpecRequest.
RequestRetries == 2

\* config.max_retries of the runs of Spec.  (The runs of a single call,
\* SpecCall, range up to the program's default.)
FlowRetries == 1

\* config.concurrent_requests of the runs of Spec (SpecRequest and SpecCall
\* use the program's default).
FlowSlots == 1

\* Cap on stats['total_data_downloaded'], in chunks: streams stop growing there.
MaxData == 1

\* Number of releases get_releases reports for the artist in SpecArtist.
MaxReleases == 3

\* Largest `limit` of cmd_download_artist in SpecArtist.
MaxLimit == 2

\* Number of track links SberZvukDownloader.process_links is given in SpecSber.
NumLinks == 2

\* Number of page requests get_artist_releases may make in SpecPages.
MaxPages == 3

\* Largest number of releases on one page of the service's answer.
MaxPageLen == 2

(* ------------------------- program constants --------------------------- *)

\* ZvukConfig.max_retries
max_retries == 5

\* ZvukConfig.retry_delay
retry_delay == 3

\* ZvukConfig.concurrent_requests
concurrent_requests == 2

NumTasks == IF NumCallers > NumTracks THEN NumCallers ELSE NumTracks

\* Task 0 is the coroutine that runs download_release.
Tasks == 0..NumTasks

\* The tasks that call make_request directly in SpecRequest.
Callers == 1..NumCallers

\* The positions of the release's track_ids; track flow t downloads track t.
Tracks == 1..NumTracks

VARIABLES
  config,      \* ZvukConfig: max_retries, retry_delay, concurrent_requests
  semaphore,   \* self.semaphore: the number of free admission slots
  stats,       \* self.stats
  pc,          \* per task: where its make_request call stands
  attempt,     \* per task: the loop variable of make_request (0-based)
  status,      \* per task: the outcome of the current attempt of make_request
  wait_time,   \* per task: the last wait_time make_request computed
  response,    \* per task: what make_request returned ("payload" or "None")
  flow,        \* per task: where its download_track call stands
  result,      \* per task: what download_track returned ("True" or "False")
  rel,         \* where download_release stands
  track_ids,   \* release_data['track_ids']
  tasks,       \* the track flows download_release created
  downloaded_count  \* what download_release returned

\* ZvukMultiBotCLI.cmd_download_artist
VARIABLES
  art,                 \* where cmd_download_artist stands
  limit,               \* its argument `limit`
  albums_to_download,  \* the candidates: filtered, then sorted and truncated
  i,                   \* the loop variable of `enumerate(albums_to_download, 1)`
  success_count,       \* the releases whose download_release returned non-zero
  started              \* the download_release calls made: release id, album_index

\* The choice of the quality tier in ZvukMultiBot.download_track
VARIABLES
  resolve,          \* where the download_track call stands
  args,             \* its arguments `quality` and `embed_metadata`
  quality,          \* its local variable `quality`
  quality_results,  \* what check_track_qualities returned
  stream_quality    \* the `quality` get_stream_url was called with

\* SberZvukDownloader (src/ZvukDownloader.py)
VARIABLES
  sber,             \* where process_links stands
  sber_config,      \* self.config: format, fallback_to_lower_quality, lyrics
  failed_tracks,    \* self.failed_tracks
  link,             \* the number of the link being processed (its track id)
  infos,            \* what get_track_info returned, per track id
  stream_requests,  \* the track/stream requests made: track id, quality
  files,            \* the track ids whose audio file has been written
  tag_calls,        \* the add_metadata calls made: track id, outcome
  lyrics_calls      \* the track ids add_lyrics was called with

\* ZvukMultiBot.get_artist_releases
VARIABLES
  paging,          \* where the get_artist_releases call stands
  list_limit,      \* its argument `limit`
  collected,       \* its local list `collected`; the return value at the end
  current_offset,  \* its local variable `current_offset`
  pages            \* the answers of the service, one per page request

\* The path names of download_track and download_release
VARIABLES
  naming,     \* where the call that names its paths stands
  name_args,  \* its arguments and what it reads of the service's answers
  fs_ops,     \* the filesystem writes it has made, in order: operation and name
  release_folder,  \* what is at the release directory's path: before, and now
  tracks_data,     \* the records of the release's tracks
  file_flow        \* per track of the release: its flow's stage and file name

\* One download_track call and the requests it makes for its track
VARIABLES
  lookup,         \* where the download_track call stands
  tries,          \* the loop variable `attempt` of its make_request call
  lookup_answer,  \* what the track lookup gave the call
  issued,         \* the requests made for the track, in order
  lookup_result   \* what download_track returned ("True" or "False")

lookupVars == <<lookup, tries, lookup_answer, issued, lookup_result>>

\* ZvukMultiBotCLI.run, execute_command and main
VARIABLES
  run,          \* where the process stands
  cli_args,     \* whether an auth token was found, the command, its items
  item,         \* the items of the command started so far
  item_flows,   \* per track flow of the item in progress: its state
  reports,      \* the calls of bot.print_stats()
  ending,       \* how the command ended
  exit_status   \* the exit status of the process, once it has exited

runVars == <<run, cli_args, item, item_flows, reports, ending, exit_status>>

\* AudioMetadataManager.lrc_to_srt, as download_track calls it
VARIABLES
  converting,  \* where the conversion stands
  lrc_text,    \* its argument: the lines of the time-coded lyrics
  srt_text     \* its result: the subtitle cues

subtitleVars == <<converting, lrc_text, srt_text>>

\* The retry waits of one make_request call, as the event loop's clock sees them
VARIABLES
  slept         \* the asyncio.sleep calls of lines 145 and 168 that have elapsed

clockVars == <<slept>>

frameVars == <<pc, attempt, status, wait_time, response>>

flowVars == <<flow, result, rel, track_ids, tasks, downloaded_count>>

botVars == <<config, semaphore, stats, pc, attempt, status, wait_time,
             response, flow, result, rel, track_ids, tasks, downloaded_count>>

artistVars == <<art, limit, albums_to_download, i, success_count, started>>

qualityVars == <<resolve, args, quality, quality_results, stream_quality>>

sberVars ==
  <<sber, sber_config, failed_tracks, link, infos, stream_requests, files,
    tag_calls, lyrics_calls>>

pageVars == <<paging, list_limit, collected, current_offset, pages>>

\* The variables of a release's files.
fileVars == <<release_folder, tracks_data, file_flow>>

nameVars == <<naming, name_args, fs_ops, fileVars>>

\* The variables that the model of make_request, download_track and
\* download_release does not describe.
outsideBot ==
  <<artistVars, qualityVars, sberVars, pageVars, nameVars, lookupVars, runVars, subtitleVars, clockVars>>

\* The variables that the model of cmd_download_artist does not describe.
outsideArtist ==
  <<botVars, qualityVars, sberVars, pageVars, nameVars, lookupVars, runVars, subtitleVars, clockVars>>

\* The variables that the model of the tier choice does not describe.
outsideQuality ==
  <<botVars, artistVars, sberVars, pageVars, nameVars, lookupVars, runVars, subtitleVars, clockVars>>

\* The variables that the model of SberZvukDownloader does not describe.
outsideSber ==
  <<botVars, artistVars, qualityVars, pageVars, nameVars, lookupVars, runVars, subtitleVars, clockVars>>

\* The variables that the model of get_artist_releases does not describe.
outsidePages ==
  <<botVars, artistVars, qualityVars, sberVars, nameVars, lookupVars, runVars, subtitleVars, clockVars>>

\* The variables that the model of the path names does not describe.
outsideNames ==
  <<botVars, artistVars, qualityVars, sberVars, pageVars, lookupVars, runVars, subtitleVars, clockVars>>

\* The variables that the model of the track lookup does not describe.
outsideLookup ==
  <<botVars, artistVars, qualityVars, sberVars, pageVars, nameVars, runVars, subtitleVars, clockVars>>

\* The variables that the model of the command-line run does not describe:
\* of the bot it describes the counters only.
outsideRun ==
  <<config, semaphore, frameVars, flowVars, artistVars, qualityVars, sberVars, pageVars, nameVars, lookupVars, subtitleVars, clockVars>>

\* The variables that the model of the subtitle conversion does not describe.
outsideSubtitles ==
  <<botVars, artistVars, qualityVars, sberVars, pageVars, nameVars, lookupVars, runVars, clockVars>>

\* Everything but the clock of the retry waits.
outsideClock ==
  <<botVars, artistVars, qualityVars, sberVars, pageVars, nameVars, lookupVars, runVars, subtitleVars>>

vars ==
  <<botVars, artistVars, qualityVars, sberVars, pageVars, nameVars, lookupVars, runVars, subtitleVars, clockVars>>

\* No cmd_download_artist has been called.
ArtistIdle ==
  /\ art = "none"
  /\ limit = 0
  /\ albums_to_download = <<>>
  /\ i = 0
  /\ success_count = 0
  /\ started = <<>>

\* No SberZvukDownloader has been constructed.
SberIdle ==
  /\ sber = "none"
  /\ sber_config = [format |-> "1", fallback_to_lower_quality |-> FALSE,
                    lyrics |-> FALSE]
  /\ failed_tracks = <<>>
  /\ link = 0
  /\ infos = <<>>
  /\ stream_requests = <<>>
  /\ files = {}
  /\ tag_calls = <<>>
  /\ lyrics_calls = <<>>

\* No get_artist_releases call has been made.
PagesIdle ==
  /\ paging = "none"
  /\ list_limit = 0
  /\ collected = <<>>
  /\ current_offset = 0
  /\ pages = <<>>

\* No call has named a path.
NamesIdle ==
  /\ naming = "none"
  /\ name_args = [custom_filename |-> <<>>, artist |-> <<>>, title |-> <<>>,
                  quality |-> "high", position |-> 0, has_year |-> FALSE,
                  label |-> "none", embed_metadata |-> TRUE,
                  save_lyrics |-> FALSE, save_subtitles |-> FALSE,
                  lyrics |-> [kind |-> "None", plain |-> FALSE, srt |-> FALSE]]
  /\ fs_ops = <<>>
  /\ release_folder = [before |-> "absent", now |-> "absent"]
  /\ tracks_data = <<>>
  /\ file_flow = [t \in Tracks |-> [stage |-> "none", filename |-> <<>>]]

\* No download_track call has looked its track up.
LookupIdle ==
  /\ lookup = "none"
  /\ tries = 0
  /\ lookup_answer = "pending"
  /\ issued = <<>>
  /\ lookup_result = "none"

\* The process has not entered ZvukMultiBotCLI.run.
RunIdle ==
  /\ run = "none"
  /\ cli_args = [auth_token |-> TRUE, command |-> "track", items |-> 1]
  /\ item = 0
  /\ item_flows = [t \in Tracks |-> "none"]
  /\ reports = 0
  /\ ending = "none"
  /\ exit_status = 0

\* No lyrics have been converted.
SubtitlesIdle ==
  /\ converting = "none"
  /\ lrc_text = <<>>
  /\ srt_text = <<>>

\* No retry wait has elapsed.
ClockIdle == slept = <<>>

\* The quality tiers of the service, best first.
Tiers == <<"flac", "high", "mid">>

TierSet == {Tiers[k] : k \in 1..Len(Tiers)}

\* No download_track call is choosing a tier.
QualityIdle ==
  /\ resolve = "none"
  /\ args = [quality |-> "high", embed_metadata |-> TRUE]
  /\ quality = "high"
  /\ quality_results = [q \in TierSet |-> "absent"]
  /\ stream_quality = "none"

(* ---------------------- calling and leaving make_request --------------- *)

\* The outcomes the code handles as an ordinary failure of the attempt:
\* "body_error": status 200 but response.json()/response.read() raised;
\* "http_error": a status other than 200 and 418; "timeout":
\* asyncio.TimeoutError; "exception": any other exception of the attempt.
\* The other outcomes are "ok" (status 200, body read) and "teapot" (418).
OrdinaryFailures == {"body_error", "http_error", "timeout", "exception"}

\* (mutant of SlotFree: the gate admits one caller too many)
SlotFreeOffByOne(free) == free >= 0

\* `async with self.semaphore`: a caller is admitted only while a slot is
\* free; `free` is the number of free slots.
SlotFree(free) == free > 0

\* The locals of a make_request call that is not running.
FrameReset(t) ==
  /\ pc' = [pc EXCEPT ![t] = "none"]
  /\ attempt' = [attempt EXCEPT ![t] = 0]
  /\ status' = [status EXCEPT ![t] = "none"]
  /\ wait_time' = [wait_time EXCEPT ![t] = 0]
  /\ response' = [response EXCEPT ![t] = "pending"]

\* Task t calls make_request while `free` slots are free.  With a free slot
\* it takes the slot at once and sleeps its politeness delay; otherwise it
\* is suspended at the gate.  A newcomer may also queue behind callers that
\* are already suspended, and a released slot may go to any suspended
\* caller: this covers every wake-up order of asyncio.Semaphore.
Enter(t, free) ==
  \E admitted \in BOOLEAN :
    /\ admitted => SlotFree(free)
    /\ ~admitted => (~SlotFree(free) \/ \E u \in Tasks \ {t} : pc[u] = "gate")
    /\ pc' = [pc EXCEPT ![t] = IF admitted THEN "delay" ELSE "gate"]
    /\ semaphore' = IF admitted THEN free - 1 ELSE free
    /\ attempt' = [attempt EXCEPT ![t] = 0]
    /\ status' = [status EXCEPT ![t] = "none"]
    /\ wait_time' = [wait_time EXCEPT ![t] = 0]
    /\ response' = [response EXCEPT ![t] = "pending"]

\* Task t goes on without calling make_request; `free` slots are free.
NoCall(t, free) ==
  /\ semaphore' = free
  /\ FrameReset(t)

\* make_request returns r to a caller that only looks at the result (SpecCall
\* and SpecRequest); `last` is the outcome of its last attempt.
ReturnToCaller(t, r, last, free) ==
  /\ semaphore' = free
  /\ pc' = [pc EXCEPT ![t] = "returned"]
  /\ response' = [response EXCEPT ![t] = r]
  /\ status' = [status EXCEPT ![t] = last]
  /\ UNCHANGED <<attempt, wait_time>>

(* ---------------------- download_track (lines 330-435) ----------------- *)

\* self.stats['failed_downloads'] += 1 (line 434).
CountFailed == [stats EXCEPT !.failed_downloads = @ + 1]

\* (mutant of CountSuccessful: the count is written from a value read when the
\* flow started, so a sibling's increment in between is lost)
CountSuccessfulFromStaleRead == [stats EXCEPT !.successful_downloads = 1]

\* self.stats['successful_downloads'] += 1 (line 400).
CountSuccessful == [stats EXCEPT !.successful_downloads = @ + 1]

\* download_track returns res with the counters st.
ReturnFlow(t, res, st) ==
  /\ flow' = [flow EXCEPT ![t] = "done"]
  /\ result' = [result EXCEPT ![t] = res]
  /\ stats' = st
  /\ UNCHANGED <<rel, track_ids, tasks, downloaded_count>>

\* download_track goes on to the next stage.
MoveTo(t, stage) ==
  /\ flow' = [flow EXCEPT ![t] = stage]
  /\ UNCHANGED <<result, rel, track_ids, tasks, downloaded_count>>

\* (mutant of LookupFailed: the flow goes on to the stream after a failed lookup)
LookupFailedGoesOn(t, free) ==
  /\ MoveTo(t, "fetch")
  /\ NoCall(t, free)
  /\ UNCHANGED stats

\* The `return False` of lines 340, 345, 359 and 365.
LookupFailed(t, free) ==
  /\ ReturnFlow(t, "False", stats)
  /\ NoCall(t, free)

\* An exception reaches `except Exception` (line 431), or the stream answers
\* with an error status (line 429): lines 434-435.
Caught(t, free) ==
  /\ ReturnFlow(t, "False", CountFailed)
  /\ NoCall(t, free)

\* get_tracks has returned r (lines 337-349).
AfterGetTracks(t, r, free) ==
  \/ /\ r = "None"                      \* no track info: line 340
     /\ LookupFailed(t, free)
  \/ /\ r = "payload"                   \* no 'result' in the payload: line 340
     /\ LookupFailed(t, free)
  \/ /\ r = "payload"                   \* 'result' has no 'tracks': KeyError
     /\ Caught(t, free)
  \/ /\ r = "payload"                   \* the track id is not in 'tracks': line 345
     /\ LookupFailed(t, free)
  \/ /\ r = "payload"                   \* found: embed_metadata, so probe the tiers
     /\ MoveTo(t, "probe")
     /\ NoCall(t, free)
     /\ UNCHANGED stats

\* check_track_qualities has answered (lines 349-362).
Probed(t) ==
  /\ flow[t] = "probe"
  /\ \/ Caught(t, semaphore)            \* the probe raised
     \/ LookupFailed(t, semaphore)      \* no tier is available: line 359
     \/ /\ MoveTo(t, "stream_url")      \* a tier is chosen: get_stream_url
        /\ Enter(t, semaphore)
        /\ UNCHANGED stats
  /\ UNCHANGED config
  /\ UNCHANGED outsideBot

\* get_stream_url has returned (lines 362-391).
AfterGetStreamUrl(t, r, free) ==
  \/ /\ r = "None"                      \* line 365
     /\ LookupFailed(t, free)
  \/ /\ r = "payload"                   \* no 'stream' in the payload: line 365
     /\ LookupFailed(t, free)
  \/ /\ r = "payload"                   \* malformed payload, or mkdir raised
     /\ Caught(t, free)
  \/ /\ r = "payload"                   \* session.get(stream_url) is issued
     /\ MoveTo(t, "fetch")
     /\ NoCall(t, free)
     /\ UNCHANGED stats

\* (mutant of StreamStatus: embedding starts while the stream is being fetched)
EmbedsWhileStreaming(t) ==
  /\ flow[t] = "fetch"
  /\ flow' = [flow EXCEPT ![t] = "lyrics"]
  /\ Enter(t, semaphore)
  /\ UNCHANGED <<config, stats, result, rel, track_ids, tasks, downloaded_count>>
  /\ UNCHANGED outsideBot

\* session.get(stream_url) is in flight: it does not pass self.semaphore.
\* The stream answers with status 200 and the file is opened (lines 392-393);
\* or with an error status, or session.get or open() raises.
StreamStatus(t) ==
  /\ flow[t] = "fetch"
  /\ \/ /\ MoveTo(t, "streaming")
        /\ UNCHANGED <<semaphore, stats, frameVars>>
     \/ Caught(t, semaphore)
  /\ UNCHANGED config
  /\ UNCHANGED outsideBot

\* One chunk is written (lines 394-396).
Chunk(t) ==
  /\ flow[t] = "streaming"
  /\ stats.total_data_downloaded < MaxData
  /\ stats' = [stats EXCEPT !.total_data_downloaded = @ + 1]
  /\ UNCHANGED <<config, semaphore, frameVars, flowVars>>
  /\ UNCHANGED outsideBot

\* (mutant of StreamFails: the success was counted when the file was opened,
\* so a stream that breaks off is counted both ways)
StreamFailsAfterCounted(t) ==
  /\ flow[t] = "streaming"
  /\ ReturnFlow(t, "False", [stats EXCEPT !.successful_downloads = @ + 1,
                                          !.failed_downloads = @ + 1])
  /\ NoCall(t, semaphore)
  /\ UNCHANGED config
  /\ UNCHANGED outsideBot

\* The stream or the write raises before the last chunk.
StreamFails(t) ==
  /\ flow[t] = "streaming"
  /\ Caught(t, semaphore)
  /\ UNCHANGED config
  /\ UNCHANGED outsideBot

\* (mutant of StreamDone: the success is not counted before the embedding)
StreamDoneUncounted(t) ==
  /\ flow[t] = "streaming"
  /\ flow' = [flow EXCEPT ![t] = "lyrics"]
  /\ Enter(t, semaphore)
  /\ UNCHANGED <<config, stats, result, rel, track_ids, tasks, downloaded_count>>
  /\ UNCHANGED outsideBot

\* The last chunk is written and the file closed (lines 398-404):
\* _embed_track_metadata starts with get_lyrics (line 444).
StreamDone(t) ==
  /\ flow[t] = "streaming"
  /\ stats' = CountSuccessful
  /\ flow' = [flow EXCEPT ![t] = "lyrics"]
  /\ Enter(t, semaphore)
  /\ UNCHANGED <<config, result, rel, track_ids, tasks, downloaded_count>>
  /\ UNCHANGED outsideBot

\* (mutant of EmbedAndReturn: a failed embedding fails the download)
EmbedFailureFailsFlow(t, free, st) ==
  /\ \E embedded \in BOOLEAN :
       IF embedded
         THEN ReturnFlow(t, "True", [st EXCEPT !.metadata_embedded = @ + 1])
         ELSE ReturnFlow(t, "False", [st EXCEPT !.failed_downloads = @ + 1])
  /\ NoCall(t, free)

\* embed_metadata(...) (lines 469-473), the sidecar files (lines 476-496)
\* and `return True` (line 427); st are the counters before.
EmbedAndReturn(t, free, st) ==
  /\ \E embedded \in BOOLEAN :
       ReturnFlow(t, "True",
                  IF embedded THEN [st EXCEPT !.metadata_embedded = @ + 1] ELSE st)
  /\ NoCall(t, free)

\* get_lyrics has returned (lines 444-459); the lyrics do not matter here.
AfterGetLyrics(t, r, free) ==
  \/ /\ MoveTo(t, "cover")              \* download_cover_art is awaited
     /\ NoCall(t, free)
     /\ UNCHANGED stats
  \/ EmbedAndReturn(t, free, stats)     \* no cover reference, or it raised

\* download_cover_art has answered (lines 459-466).
CoverDone(t) ==
  /\ flow[t] = "cover"
  /\ \E got \in BOOLEAN :
       EmbedAndReturn(t, semaphore,
                      IF got THEN [stats EXCEPT !.covers_downloaded = @ + 1] ELSE stats)
  /\ UNCHANGED config
  /\ UNCHANGED outsideBot

\* The event loop starts a track flow that gather scheduled: download_track
\* runs up to its first suspension, inside get_tracks (line 337).
StartFlow(t) ==
  /\ flow[t] = "created"
  /\ MoveTo(t, "tracks")
  /\ Enter(t, semaphore)
  /\ UNCHANGED <<config, stats>>
  /\ UNCHANGED outsideBot

(* -------------------- download_release (lines 501-579) ----------------- *)

\* The flows created by the loop of lines 557-572: one per id of track_ids
\* that has a non-empty record in the response's 'tracks'.
CreatedFlows(ids, withInfo) == ids \cap withInfo

\* (mutant of GatherDone: the join ends at the first failed flow)
GatherFirstFailure ==
  \/ \E t \in tasks : result[t] = "False"
  \/ \A t \in tasks : result[t] # "none"

\* asyncio.gather(*tasks, return_exceptions=True) completes (line 575).
GatherDone == \A t \in tasks : result[t] # "none"

\* (mutant of CountTrue: every collected result is counted)
CountResults == Cardinality(tasks)

\* sum(1 for result in results if result is True) (line 576).
CountTrue == Cardinality({t \in tasks : result[t] = "True"})

\* cmd_download_release awaits download_release, which awaits get_releases.
StartRelease ==
  /\ rel = "none"
  /\ rel' = "info"
  /\ Enter(0, semaphore)
  /\ UNCHANGED <<config, stats, flow, result, track_ids, tasks, downloaded_count>>
  /\ UNCHANGED outsideBot

\* get_releases has returned r (lines 506-575).
AfterGetReleases(r, free) ==
  \/ /\ r = "None"                      \* line 509
     /\ rel' = "returned"
     /\ downloaded_count' = 0
     /\ NoCall(0, free)
     /\ UNCHANGED <<stats, flow, result, track_ids, tasks>>
  \/ /\ r = "payload"                   \* no 'result', no release, no tracks
     /\ rel' = "returned"
     /\ downloaded_count' = 0
     /\ NoCall(0, free)
     /\ UNCHANGED <<stats, flow, result, track_ids, tasks>>
  \/ /\ r = "payload"                   \* KeyError at line 511, or mkdir raised
     /\ rel' = "raised"
     /\ NoCall(0, free)
     /\ UNCHANGED <<stats, flow, result, track_ids, tasks, downloaded_count>>
  \/ /\ r = "payload"                   \* the fan-out of lines 556-575
     /\ \E ids \in SUBSET Tracks : \E withInfo \in SUBSET Tracks :
          /\ track_ids' = ids
          /\ tasks' = CreatedFlows(ids, withInfo)
          /\ flow' = [t \in Tasks |->
                        IF t \in CreatedFlows(ids, withInfo) THEN "created" ELSE flow[t]]
     /\ rel' = "gather"
     /\ NoCall(0, free)
     /\ UNCHANGED <<stats, result, downloaded_count>>

\* Every flow has finished: lines 576-579.
Join ==
  /\ rel = "gather"
  /\ GatherDone
  /\ rel' = "returned"
  /\ downloaded_count' = CountTrue
  /\ UNCHANGED <<config, semaphore, stats, frameVars, flow, result, track_ids, tasks>>
  /\ UNCHANGED outsideBot

(* ---------------------- make_request (lines 128-170) ------------------- *)

\* make_request returns r to the code that awaits it, which runs on to its
\* next suspension point in the same step; `free` slots are free.
Resume(t, r, last, free) ==
  CASE t = 0 /\ rel = "info"   -> AfterGetReleases(r, free)
    [] flow[t] = "tracks"      -> AfterGetTracks(t, r, free)
    [] flow[t] = "stream_url"  -> AfterGetStreamUrl(t, r, free)
    [] flow[t] = "lyrics"      -> AfterGetLyrics(t, r, free)
    [] OTHER -> /\ ReturnToCaller(t, r, last, free)
                /\ UNCHANGED <<stats, flowVars>>

\* Leaving `async with self.semaphore` with the return value r.
Exit(t, r, last) == Resume(t, r, last, semaphore + 1)

\* (mutant of HasAttempt: one iteration too many)
HasAttemptOffByOne(a) == a <= config.max_retries

\* `for attempt in range(self.config.max_retries)`: is there an iteration a?
HasAttempt(a) == a < config.max_retries

\* (mutant of TeapotWait: the cool-down is not doubled)
TeapotWaitNotDoubled(a) == config.retry_delay * (a + 1)

\* wait_time after a 418 response (line 143).
TeapotWait(a) == config.retry_delay * (a + 1) * 2

\* wait_time after an ordinary failure (line 167).
RetryWait(a) == config.retry_delay * (a + 1)

\* (mutant of WaitsAfterFailure: the wait follows the last attempt as well)
WaitsAfterEveryFailure(a) == a < config.max_retries

\* `if attempt < self.config.max_retries - 1` (line 166).
WaitsAfterFailure(a) == a < config.max_retries - 1

\* (mutant of CountRequest: only the first attempt of a call is counted)
CountFirstRequest(a) ==
  IF a = 0 THEN [stats EXCEPT !.requests_made = @ + 1] ELSE stats

\* self.stats['requests_made'] += 1 at the head of iteration a (line 139).
CountRequest(a) == [stats EXCEPT !.requests_made = @ + 1]

\* A suspended caller is admitted when a slot is free.
Admit(t) ==
  /\ pc[t] = "gate"
  /\ SlotFree(semaphore)
  /\ semaphore' = semaphore - 1
  /\ pc' = [pc EXCEPT ![t] = "delay"]
  /\ UNCHANGED <<config, stats, attempt, status, wait_time, response, flowVars>>
  /\ UNCHANGED outsideBot

\* The head of loop iteration a, reached with `last` the outcome of the
\* iteration before: count the request and issue it, or, when the range is
\* exhausted, fall out of the loop and return None.
Iterate(t, a, last) ==
  IF HasAttempt(a)
    THEN /\ attempt' = [attempt EXCEPT ![t] = a]
         /\ status' = [status EXCEPT ![t] = "none"]
         /\ stats' = CountRequest(a)
         /\ pc' = [pc EXCEPT ![t] = "request"]
         /\ UNCHANGED <<semaphore, response, wait_time, flowVars>>
    ELSE Exit(t, "None", last)

\* The politeness delay is over: the first iteration starts.
DelayDone(t) ==
  /\ pc[t] = "delay"
  /\ Iterate(t, 0, "none")
  /\ UNCHANGED config
  /\ UNCHANGED outsideBot

\* (mutant of Fail: the next attempt follows without the wait)
FailWithoutWait(t, o) == Iterate(t, attempt[t] + 1, o)

\* What follows an ordinary failure o of iteration attempt[t] (lines 159-168):
\* the wait, unless this was the last iteration.
Fail(t, o) ==
  IF WaitsAfterFailure(attempt[t])
    THEN /\ wait_time' = [wait_time EXCEPT ![t] = RetryWait(attempt[t])]
         /\ status' = [status EXCEPT ![t] = o]
         /\ pc' = [pc EXCEPT ![t] = "backoff"]
         /\ UNCHANGED <<semaphore, response, attempt, stats, flowVars>>
    ELSE Iterate(t, attempt[t] + 1, o)

\* The attempt ends with status 200 and a readable body: return the payload.
RespondOk(t) ==
  /\ pc[t] = "request"
  /\ Exit(t, "payload", "ok")
  /\ UNCHANGED config
  /\ UNCHANGED outsideBot

\* The attempt ends with status 418: sleep the cool-down (lines 142-146).
RespondTeapot(t) ==
  /\ pc[t] = "request"
  /\ status' = [status EXCEPT ![t] = "teapot"]
  /\ wait_time' = [wait_time EXCEPT ![t] = TeapotWait(attempt[t])]
  /\ pc' = [pc EXCEPT ![t] = "cooldown"]
  /\ UNCHANGED <<config, semaphore, stats, attempt, response, flowVars>>
  /\ UNCHANGED outsideBot

\* The attempt ends with another status, a timeout or an exception.
RespondFailure(t) ==
  /\ pc[t] = "request"
  /\ \E o \in OrdinaryFailures : Fail(t, o)
  /\ UNCHANGED config
  /\ UNCHANGED outsideBot

\* asyncio.sleep(wait_time) is over, after a 418 (line 145, `continue`) or
\* after an ordinary failure (line 168): the next iteration starts.
WaitDone(t) ==
  /\ pc[t] \in {"cooldown", "backoff"}
  /\ Iterate(t, attempt[t] + 1, status[t])
  /\ UNCHANGED config
  /\ UNCHANGED outsideBot

\* One step of a make_request call that has been admitted.
Attempts(t) ==
  \/ DelayDone(t)
  \/ RespondOk(t)
  \/ RespondTeapot(t)
  \/ RespondFailure(t)
  \/ WaitDone(t)

\* One step of a make_request call of task t.
Transport(t) == Admit(t) \/ Attempts(t)

(* --------------------- the state after construction -------------------- *)

\* ZvukMultiBot.__init__ (lines 56-69) with the given configuration.
Constructed(retries, slots) ==
  /\ config = [max_retries |-> retries, retry_delay |-> retry_delay,
               concurrent_requests |-> slots]
  /\ semaphore = slots
  /\ stats = [requests_made |-> 0, successful_downloads |-> 0,
              failed_downloads |-> 0, total_data_downloaded |-> 0,
              metadata_embedded |-> 0, covers_downloaded |-> 0]
  /\ pc = [t \in Tasks |-> "none"]
  /\ attempt = [t \in Tasks |-> 0]
  /\ status = [t \in Tasks |-> "none"]
  /\ wait_time = [t \in Tasks |-> 0]
  /\ response = [t \in Tasks |-> "pending"]
  /\ flow = [t \in Tasks |-> "none"]
  /\ result = [t \in Tasks |-> "none"]
  /\ rel = "none"
  /\ track_ids = {}
  /\ tasks = {}
  /\ downloaded_count = 0
  /\ ArtistIdle
  /\ QualityIdle
  /\ SberIdle
  /\ PagesIdle
  /\ NamesIdle
  /\ LookupIdle
  /\ ClockIdle
  /\ SubtitlesIdle
  /\ RunIdle

(* ------------- SpecRequest: concurrent callers of make_request --------- *)

\* A caller (get_profile, get_tracks, ...) awaits self.make_request(...).
Call(t) ==
  /\ pc[t] = "none"
  /\ Enter(t, semaphore)
  /\ UNCHANGED <<config, stats, flowVars>>
  /\ UNCHANGED outsideBot

InitRequest == Constructed(RequestRetries, concurrent_requests)

NextRequest == \E t \in Callers : Call(t) \/ Transport(t)

SpecRequest == InitRequest /\ [][NextRequest]_vars

(* ------------- SpecCall: one call of make_request, default config ------ *)

\* The configured attempt cap ranges up to the program's default.
InitCall == \E r \in 1..max_retries : Constructed(r, concurrent_requests)

\* A single caller is never suspended at the gate.
NextCall == Call(1) \/ Attempts(1)

SpecCall == InitCall /\ [][NextCall]_vars

(* ------------- Spec: download_release and its track flows -------------- *)

\* One step of the download_track call of flow t outside make_request.
TrackFlow(t) ==
  \/ StartFlow(t)
  \/ Probed(t)
  \/ StreamStatus(t)
  \/ Chunk(t)
  \/ StreamFails(t)
  \/ StreamDone(t)
  \/ CoverDone(t)

Init == Constructed(FlowRetries, FlowSlots)

Next ==
  \/ StartRelease
  \/ Join
  \/ \E t \in Tracks : TrackFlow(t)
  \/ \E t \in {0} \cup Tracks : Transport(t)

Spec == Init /\ [][Next]_vars

(* ------------- SpecTally: a release with one attempt per request ------- *)

\* The bot is configured with max_retries = 1: the counters of the downloads
\* do not depend on the number of attempts (only requests_made does), and a
\* single attempt leaves room for more flows.
InitTally == Constructed(1, FlowSlots)

SpecTally == InitTally /\ [][Next]_vars

(* ------------- cmd_download_artist (lines 1228-1300) ------------------- *)

\* The values of a release record's 'date': absent, text without a digit,
\* and two dates in the expected form YYYYMMDD.
DateValues ==
  { [has_date |-> FALSE, date |-> <<>>],
    [has_date |-> TRUE, date |-> <<"t", "b", "a">>],
    [has_date |-> TRUE, date |-> <<"2", "0", "2", "1", "0", "3", "0", "5">>],
    [has_date |-> TRUE, date |-> <<"2", "0", "2", "3", "1", "1", "2", "0">>] }

\* The values of `limit`: argparse takes any int (line 745).
Limits == -1..MaxLimit

\* ch.isdigit() (line 1265).
IsDigit(ch) == ch \in {"0", "1", "2", "3", "4", "5", "6", "7", "8", "9"}

DigitValue(ch) ==
  CASE ch = "0" -> 0 [] ch = "1" -> 1 [] ch = "2" -> 2 [] ch = "3" -> 3
    [] ch = "4" -> 4 [] ch = "5" -> 5 [] ch = "6" -> 6 [] ch = "7" -> 7
    [] ch = "8" -> 8 [] ch = "9" -> 9

\* int(ds) for a non-empty string of digits (line 1267).
RECURSIVE ParseInt(_)
ParseInt(ds) ==
  IF ds = <<>> THEN 0
  ELSE ParseInt(SubSeq(ds, 1, Len(ds) - 1)) * 10 + DigitValue(ds[Len(ds)])

\* s[:n] of Python, for any integer n.
Slice(s, n) ==
  IF n >= 0
    THEN SubSeq(s, 1, IF n < Len(s) THEN n ELSE Len(s))
    ELSE SubSeq(s, 1, IF Len(s) + n > 0 THEN Len(s) + n ELSE 0)

\* _release_date_int (lines 1260-1270): the sort key of a release record.
release_date_int(data) ==
  IF ~data.has_date THEN 99999999
  ELSE LET ds == Slice(SelectSeq(data.date, IsDigit), 8)
       IN IF ds # <<>> THEN ParseInt(ds) ELSE 99999999

\* list.sort(key=..., reverse=True) (line 1272): descending by key, records
\* with equal keys keep their order.
RECURSIVE InsertByKey(_, _)
InsertByKey(x, sorted) ==
  IF sorted = <<>> THEN <<x>>
  ELSE IF release_date_int(Head(sorted)) >= release_date_int(x)
         THEN <<Head(sorted)>> \o InsertByKey(x, Tail(sorted))
         ELSE <<x>> \o sorted

RECURSIVE SortNewestFirst(_)
SortNewestFirst(pairs) ==
  IF pairs = <<>> THEN <<>>
  ELSE InsertByKey(pairs[Len(pairs)],
                   SortNewestFirst(SubSeq(pairs, 1, Len(pairs) - 1)))

\* The filter of lines 1246-1257; `album` says that the release has type
\* 'album' or at least 7 tracks.
FilterReleases(releases_data, skip_singles) ==
  IF skip_singles
    THEN SelectSeq(releases_data, LAMBDA r : r.album)
    ELSE releases_data

\* Lines 1246-1273: filter, sort, truncate.
Candidates(releases_data, skip_singles, lim) ==
  Slice(SortNewestFirst(FilterReleases(releases_data, skip_singles)), lim)

\* (mutant of AlbumIndex: the index counts from 0)
AlbumIndexFromZero(k) == k - 1

\* `enumerate(albums_to_download, 1)` (line 1285): the index of the k-th pair.
AlbumIndex(k) == k

\* Iteration k of the loop calls download_release (line 1291).
DownloadRelease(k, albums) ==
  /\ art' = "release"
  /\ i' = AlbumIndex(k)
  /\ started' = Append(started, [release_id |-> albums[k].id,
                                 album_index |-> AlbumIndex(k)])

\* cmd_download_artist is called: get_artist_releases (line 1233) finds
\* releases and get_releases is awaited (line 1239), or it finds none
\* (lines 1234-1236).
CmdDownloadArtist ==
  /\ art = "none"
  /\ \E lim \in Limits : limit' = lim
  /\ \E found \in BOOLEAN : art' = IF found THEN "info" ELSE "done"
  /\ UNCHANGED <<albums_to_download, i, success_count, started, outsideArtist>>

\* get_releases has returned (lines 1240-1291): no usable answer, or the
\* release records in the order of the answer.
Select ==
  /\ art = "info"
  /\ \/ /\ art' = "done"                            \* lines 1240-1242
        /\ UNCHANGED <<albums_to_download, i, started>>
     \/ \E n \in 0..MaxReleases :
        \E dates \in [1..n -> DateValues] :
        \E albums \in [1..n -> BOOLEAN] :
        \E skip_singles \in BOOLEAN :
          LET releases_data == [k \in 1..n |->
                                  [id |-> k, has_date |-> dates[k].has_date,
                                   date |-> dates[k].date, album |-> albums[k]]]
              chosen == Candidates(releases_data, skip_singles, limit)
          IN /\ albums_to_download' = chosen
             /\ IF chosen = <<>>
                  THEN /\ art' = "done"               \* lines 1275-1277
                       /\ UNCHANGED <<i, started>>
                  ELSE DownloadRelease(1, chosen)
  /\ UNCHANGED <<limit, success_count, outsideArtist>>

\* download_release returns its count (lines 1291-1300): the next release
\* is started, or the loop ends.
ReleaseReturns ==
  /\ art = "release"
  /\ \E success \in BOOLEAN :
       success_count' = IF success THEN success_count + 1 ELSE success_count
  /\ IF i < Len(albums_to_download)
       THEN DownloadRelease(i + 1, albums_to_download)
       ELSE /\ art' = "done"
            /\ UNCHANGED <<i, started>>
  /\ UNCHANGED <<limit, albums_to_download, outsideArtist>>

\* download_release raises (line 511, line 551): nothing in the loop
\* catches the exception, which leaves cmd_download_artist.
ReleaseRaises ==
  /\ art = "release"
  /\ art' = "raised"
  /\ UNCHANGED <<limit, albums_to_download, i, success_count, started, outsideArtist>>

InitArtist == Constructed(max_retries, concurrent_requests)

NextArtist == CmdDownloadArtist \/ Select \/ ReleaseReturns \/ ReleaseRaises

SpecArtist == InitArtist /\ [][NextArtist]_vars

(* ------------- the tier choice of download_track (lines 347-365) ------- *)

\* The answers of check_track_qualities: per tier, 'available' is true
\* ("yes"), false ("no"), or the entry is missing ("absent").
ProbeResults == [TierSet -> {"yes", "no", "absent"}]

\* quality_results.get(q, {}).get('available', False) (line 350).
Available(P, q) == q \in DOMAIN P /\ P[q] = "yes"

\* QualityChecker.get_best_available_quality: the first available tier in
\* the order flac, high, mid, or "none".
get_best_available_quality(P) ==
  IF \E k \in 1..Len(Tiers) : Available(P, Tiers[k])
    THEN Tiers[CHOOSE k \in 1..Len(Tiers) :
                 /\ Available(P, Tiers[k])
                 /\ \A j \in 1..(k - 1) : ~Available(P, Tiers[j])]
    ELSE "none"

\* (mutant of ResolveQuality: the requested tier is used whatever the probe says)
ResolveQualityKeepsRequested(T, P) == T

\* Lines 350-359: the tier to use for requested tier T and probe result P,
\* or "none".
ResolveQuality(T, P) ==
  IF Available(P, T) THEN T ELSE get_best_available_quality(P)

\* (mutant of ChooseCall: the tiers are probed whatever embed_metadata says)
ChooseCallAlwaysProbes ==
  /\ resolve = "none"
  /\ \E T \in TierSet : \E embed \in BOOLEAN :
       /\ args' = [quality |-> T, embed_metadata |-> embed]
       /\ quality' = T
       /\ resolve' = "probe"
       /\ stream_quality' = "none"
  /\ UNCHANGED <<quality_results, outsideQuality>>

\* download_track is called and the track is found (lines 335-349, 362):
\* with embed_metadata the probe is awaited, without it get_stream_url.
ChooseCall ==
  /\ resolve = "none"
  /\ \E T \in TierSet : \E embed \in BOOLEAN :
       /\ args' = [quality |-> T, embed_metadata |-> embed]
       /\ quality' = T
       /\ resolve' = IF embed THEN "probe" ELSE "stream_url"
       /\ stream_quality' = IF embed THEN "none" ELSE T
  /\ UNCHANGED <<quality_results, outsideQuality>>

\* check_track_qualities has answered (lines 349-362).
ProbeAnswers ==
  /\ resolve = "probe"
  /\ \E P \in ProbeResults :
       /\ quality_results' = P
       /\ IF ResolveQuality(quality, P) = "none"
            THEN /\ resolve' = "failed"                  \* line 359
                 /\ UNCHANGED <<quality, stream_quality>>
            ELSE /\ quality' = ResolveQuality(quality, P)
                 /\ stream_quality' = ResolveQuality(quality, P)
                 /\ resolve' = "stream_url"              \* line 362
  /\ UNCHANGED <<args, outsideQuality>>

\* check_track_qualities raises: lines 431-435.
ProbeRaises ==
  /\ resolve = "probe"
  /\ resolve' = "failed"
  /\ UNCHANGED <<args, quality, quality_results, stream_quality, outsideQuality>>

\* get_stream_url has answered (lines 362-365): the stream is fetched next,
\* or the call returns False.
StreamUrlAnswers ==
  /\ resolve = "stream_url"
  /\ \E got \in BOOLEAN : resolve' = IF got THEN "fetch" ELSE "failed"
  /\ UNCHANGED <<args, quality, quality_results, stream_quality, outsideQuality>>

InitQuality == Constructed(max_retries, concurrent_requests)

NextQuality == ChooseCall \/ ProbeAnswers \/ ProbeRaises \/ StreamUrlAnswers

SpecQuality == InitQuality /\ [][NextQuality]_vars

(* ------------- SberZvukDownloader (src/ZvukDownloader.py) -------------- *)

\* config['format'] as first_start_config stores it: '1' is FLAC, '2' is MP3.
Formats == {"1", "2"}

\* What get_track_info returns (lines 38-48): None ("found" is false), or
\* the track record with its has_flac flag.
TrackInfos ==
  { [found |-> FALSE, has_flac |-> FALSE],
    [found |-> TRUE, has_flac |-> FALSE],
    [found |-> TRUE, has_flac |-> TRUE] }

\* Line 55.
preferred_format(cfg) == IF cfg.format = "1" THEN "flac" ELSE "high"

\* Line 56.
available_format(track_info) == IF track_info.has_flac THEN "flac" ELSE "high"

\* (mutant of SkipsTrack: a track is never skipped)
SkipsNoTrack(cfg, track_info) == FALSE

\* The condition of line 58.
SkipsTrack(cfg, track_info) ==
  /\ preferred_format(cfg) # available_format(track_info)
  /\ ~cfg.fallback_to_lower_quality

\* self.failed_tracks.append(track_id)
Failed(track_id) == Append(failed_tracks, track_id)

\* SberZvukDownloader() (lines 10-15, 17-21): the configuration is loaded.
LoadConfig ==
  /\ sber = "none"
  /\ \E f \in Formats : \E fallback \in BOOLEAN : \E ly \in BOOLEAN :
       sber_config' = [format |-> f, fallback_to_lower_quality |-> fallback,
                       lyrics |-> ly]
  /\ sber' = "ready"
  /\ UNCHANGED <<failed_tracks, link, infos, stream_requests, files, tag_calls,
                 lyrics_calls, outsideSber>>

\* process_links takes the next track link (lines 163-167): get_track_info,
\* then download_track up to its track/stream request (lines 50-66).
NextLink ==
  /\ sber = "ready"
  /\ link < NumLinks
  /\ link' = link + 1
  /\ \E track_info \in TrackInfos :
       /\ infos' = Append(infos, track_info)
       /\ IF ~track_info.found
            THEN /\ failed_tracks' = Failed(link + 1)        \* lines 47, 51-52
                 /\ UNCHANGED <<sber, stream_requests>>
            ELSE IF SkipsTrack(sber_config, track_info)
              THEN /\ failed_tracks' = Failed(link + 1)      \* lines 58-61
                   /\ UNCHANGED <<sber, stream_requests>>
              ELSE /\ sber' = "stream"                       \* lines 64-66
                   /\ stream_requests' =
                        Append(stream_requests,
                               [id |-> link + 1, quality |-> available_format(track_info)])
                   /\ UNCHANGED failed_tracks
  /\ UNCHANGED <<sber_config, files, tag_calls, lyrics_calls, outsideSber>>

\* The stream location and the stream are fetched and the file is written
\* (lines 67-82), or one of these raises (lines 90-92).
WriteFile ==
  /\ sber = "stream"
  /\ \/ /\ files' = files \cup {link}
        /\ sber' = "metadata"
        /\ UNCHANGED failed_tracks
     \/ /\ failed_tracks' = Failed(link)
        /\ sber' = "ready"
        /\ UNCHANGED files
  /\ UNCHANGED <<sber_config, link, infos, stream_requests, tag_calls,
                 lyrics_calls, outsideSber>>

\* How an add_metadata call ends: the tags and the cover are saved; the
\* cover fetch of lines 96-98 raises; or opening, tagging or saving the
\* file raises (lines 100-123).
MetadataOutcomes == {"ok", "cover_failed", "tags_failed"}

\* (mutant of AfterMetadata: a failure of add_metadata reaches the handler
\* of download_track, which skips the lyrics step)
AfterMetadataRaised(cfg, outcome) ==
  IF outcome # "ok" THEN "ready" ELSE IF cfg.lyrics THEN "lyrics" ELSE "ready"

\* Lines 84-87: add_metadata has returned, whatever its outcome (its body
\* is one try block whose handler, lines 124-126, does not raise), and
\* add_lyrics is called when config['lyrics'] is set.
AfterMetadata(cfg, outcome) == IF cfg.lyrics THEN "lyrics" ELSE "ready"

\* add_metadata (lines 94-126): on a failure the handler appends the track
\* id to failed_tracks.
AddMetadata ==
  /\ sber = "metadata"
  /\ \E outcome \in MetadataOutcomes :
       /\ tag_calls' = Append(tag_calls, [id |-> link, outcome |-> outcome])
       /\ failed_tracks' = IF outcome = "ok" THEN failed_tracks ELSE Failed(link)
       /\ sber' = AfterMetadata(sber_config, outcome)
  /\ UNCHANGED <<sber_config, link, infos, stream_requests, files, lyrics_calls,
                 outsideSber>>

\* add_lyrics (lines 128-144): its failures are printed only, and
\* download_track returns (line 89).
AddLyrics ==
  /\ sber = "lyrics"
  /\ lyrics_calls' = Append(lyrics_calls, link)
  /\ sber' = "ready"
  /\ UNCHANGED <<sber_config, failed_tracks, link, infos, stream_requests, files,
                 tag_calls, outsideSber>>

InitSber == Constructed(max_retries, concurrent_requests)

NextSber == LoadConfig \/ NextLink \/ WriteFile \/ AddMetadata \/ AddLyrics

SpecSber == InitSber /\ [][NextSber]_vars

(* ------------- get_artist_releases (lines 247-296) --------------------- *)

\* The values of `limit` (callers pass limit, limit * 2 or 50 unchecked).
ListLimits == -1..(MaxPageLen + 1)

\* The answers that end the pagination: make_request returned None, the
\* payload lacks data.getArtists (lines 276-277), or the page is empty
\* (lines 279-281).
Terminating == {"None", "malformed", "empty"}

\* A non-empty page: the release at offset n of the artist's list has id
\* n + 1; an entry without 'id' is written 0.
PageAt(offset, has_id) ==
  [k \in 1..Len(has_id) |-> IF has_id[k] THEN offset + k ELSE 0]

\* (int(r['id']) for r in releases if 'id' in r) (line 283).
IdsOf(releases) == SelectSeq(releases, LAMBDA r : r # 0)

\* (mutant of ReachedLimit: the limit never stops the pagination)
ReachedLimitNever(lim, n) == FALSE

\* `limit > 0 and len(collected) >= limit` (line 286) for len(collected) = n.
ReachedLimit(lim, n) == lim > 0 /\ n >= lim

\* get_artist_releases is called and awaits its first page (lines 253-274).
GetArtistReleases ==
  /\ paging = "none"
  /\ \E lim \in ListLimits : list_limit' = lim
  /\ paging' = "request"
  /\ collected' = <<>>
  /\ current_offset' = 0
  /\ UNCHANGED <<pages, outsidePages>>

\* The page request is answered by a terminating page: `break` and
\* `return collected` (lines 276-281, 296).
PageEnds ==
  /\ paging = "request"
  /\ \E kind \in Terminating :
       pages' = Append(pages, [kind |-> kind, releases |-> <<>>])
  /\ paging' = "returned"
  /\ UNCHANGED <<list_limit, collected, current_offset, outsidePages>>

\* The page request is answered by a page of releases (lines 279-296):
\* the limit is reached and the list returned, or the next page is
\* requested after the pause.
PageArrives ==
  /\ paging = "request"
  /\ Len(pages) < MaxPages
  /\ \E n \in 1..MaxPageLen : \E has_id \in [1..n -> BOOLEAN] :
       LET releases == PageAt(current_offset, has_id)
           extended == collected \o IdsOf(releases)
       IN /\ pages' = Append(pages, [kind |-> "releases", releases |-> releases])
          /\ IF ReachedLimit(list_limit, Len(extended))
               THEN /\ collected' = Slice(extended, list_limit)  \* lines 286-288
                    /\ paging' = "returned"
                    /\ UNCHANGED current_offset
               ELSE /\ collected' = extended
                    /\ current_offset' = current_offset + Len(releases)
                    /\ paging' = "request"
  /\ UNCHANGED <<list_limit, outsidePages>>

\* The page request is answered by a payload the loop cannot read:
\* 'data' is null, so `'getArtists' in response['data']` raises TypeError
\* (line 276); getArtists[0] is not an object (line 279); an entry of
\* 'releases' is not an object or its 'id' is no number (line 283).  Nothing
\* in get_artist_releases catches the exception.
PageRaises ==
  /\ paging = "request"
  /\ pages' = Append(pages, [kind |-> "unreadable", releases |-> <<>>])
  /\ paging' = "raised"
  /\ UNCHANGED <<list_limit, collected, current_offset, outsidePages>>

InitPages == Constructed(max_retries, concurrent_requests)

NextPages == GetArtistReleases \/ PageEnds \/ PageRaises \/ PageArrives

SpecPages == InitPages /\ [][NextPages]_vars

(* ------------- the path names (lines 368-386, 518-551) ----------------- *)

\* Largest length of a title or a custom file name in SpecNames.
MaxNameLen == 2

\* The characters of the names: a letter, a digit, the characters the
\* sanitization keeps, and a tab, a slash and a question mark.
NameChars == {"a", "1", " ", "-", "_", ".", "[", "]", "\t", "/", "?"}

\* The strings of at most n characters, as sequences of characters.
Names(n) == UNION {[1..k -> NameChars] : k \in 0..n}

\* The values of artist_names[0].
ArtistNames == {<<"a">>, <<"a", "/", "1">>, <<" ", "?">>}

\* The values of `position`; 0 also stands for a position that is no int.
Positions == {0, 1, 12}

\* The letters that occur in the names.
Letters == {"a", "c", "f", "l", "m", "p", "r", "s", "t", "x",
            "E", "G", "I", "L", "N", "P", "S"}

\* c.isalnum()
isalnum(c) == c \in Letters \/ IsDigit(c)

\* The characters line 380 keeps besides letters and digits.
TrackAllowed == {" ", "-", "_", "."}

\* The characters line 549 keeps besides letters and digits.
FolderAllowed == {" ", "-", "_", ".", "[", "]"}

\* c.isspace() for the characters of the names.
isspace(c) == c \in {" ", "\t"}

\* s.rstrip()
RECURSIVE rstrip(_)
rstrip(s) ==
  IF s # <<>> /\ isspace(s[Len(s)]) THEN rstrip(SubSeq(s, 1, Len(s) - 1)) ELSE s

\* "".join(c for c in s if c.isalnum() or c in allowed)
Keep(s, allowed) == SelectSeq(s, LAMBDA c : isalnum(c) \/ c \in allowed)

\* (mutant of Sanitize: trailing whitespace is stripped before the filter)
SanitizeStripsFirst(s, allowed) == Keep(rstrip(s), allowed)

\* Lines 380 and 549: the filter, then rstrip().
Sanitize(s, allowed) == rstrip(Keep(s, allowed))

DigitChar(d) ==
  CASE d = 0 -> "0" [] d = 1 -> "1" [] d = 2 -> "2" [] d = 3 -> "3"
    [] d = 4 -> "4" [] d = 5 -> "5" [] d = 6 -> "6" [] d = 7 -> "7"
    [] d = 8 -> "8" [] d = 9 -> "9"

\* str(n) for n >= 0.
RECURSIVE Decimal(_)
Decimal(n) ==
  IF n < 10 THEN <<DigitChar(n)>> ELSE Decimal(n \div 10) \o <<DigitChar(n % 10)>>

\* f"{n:02d}" for n >= 0.
Format02d(n) == IF n < 10 THEN <<"0">> \o Decimal(n) ELSE Decimal(n)

\* get_file_extension_for_quality(quality)[1:]
get_file_extension_for_quality(q) ==
  IF q = "flac" THEN <<"f", "l", "a", "c">> ELSE <<"m", "p", "3">>

\* f"{artist} - {title}.{extension}" (line 378)
RawBaseName(a) ==
  a.artist \o <<" ", "-", " ">> \o a.title \o <<".">>
    \o get_file_extension_for_quality(a.quality)

\* Lines 372-384: `filename`.
TrackFileName(a) ==
  IF a.custom_filename # <<>>
    THEN a.custom_filename
    ELSE IF a.position > 0
      THEN Format02d(a.position) \o <<".", " ">> \o Sanitize(RawBaseName(a), TrackAllowed)
      ELSE Sanitize(RawBaseName(a), TrackAllowed)

\* " ".join(name_parts)
RECURSIVE JoinParts(_)
JoinParts(parts) ==
  IF parts = <<>> THEN <<>>
  ELSE IF Len(parts) = 1 THEN parts[1]
  ELSE parts[1] \o <<" ">> \o JoinParts(Tail(parts))

\* The text of the label of lines 530-537.
LabelText(label) ==
  CASE label = "LP" -> <<"L", "P">>
    [] label = "EP" -> <<"E", "P">>
    [] label = "SINGLE" -> <<"S", "I", "N", "G", "L", "E">>

\* Lines 539-547: the name before the sanitization; the year is 2021.
RawFolderName(a) ==
  JoinParts((IF a.position > 0 THEN <<Format02d(a.position) \o <<".">> >> ELSE <<>>)
            \o (IF a.has_year THEN << <<"[", "2", "0", "2", "1", "]">> >> ELSE <<>>)
            \o <<a.title>>
            \o (IF a.label # "none"
                  THEN << <<"[">> \o LabelText(a.label) \o <<"]">> >> ELSE <<>>))

\* Line 549: `folder_name`.
FolderName(a) == Sanitize(RawFolderName(a), FolderAllowed)

\* The last component of the path dest_dir / name: what follows the last
\* slash, trailing slashes apart.
RECURSIVE FinalComponent(_)
FinalComponent(name) ==
  IF name = <<>> THEN <<>>
  ELSE IF name[Len(name)] = "/" THEN FinalComponent(SubSeq(name, 1, Len(name) - 1))
  ELSE LET slashes == {k \in 1..Len(name) : name[k] = "/"}
           from == IF slashes = {} THEN 1
                   ELSE 1 + CHOOSE k \in slashes : \A j \in slashes : j <= k
       IN SubSeq(name, from, Len(name))

\* PurePath.stem of a final component: the name without its last suffix.
Stem(name) ==
  LET dots == {k \in 1..Len(name) : name[k] = "."}
      last == IF dots = {} THEN 0 ELSE CHOOSE k \in dots : \A j \in dots : j <= k
  IN IF 1 < last /\ last < Len(name) THEN SubSeq(name, 1, last - 1) ELSE name

\* f"{base_name}.lrc" in filepath.parent (lines 478-482).
SidecarName(filename) == Stem(FinalComponent(filename)) \o <<".", "l", "r", "c">>

\* download_track is called by cmd_download_track (line 870) with a custom
\* file name, or by download_release (line 562) with a position, and opens
\* its audio file (lines 368-393).
OpenTrackFile ==
  /\ naming = "none"
  /\ \E quality_ \in {"flac", "high"} :
       \/ \E custom \in Names(MaxNameLen) \ {<<>>} :
            name_args' = [name_args EXCEPT !.custom_filename = custom,
                                           !.quality = quality_]
       \/ \E a \in ArtistNames : \E t \in Names(MaxNameLen) : \E p \in Positions :
            name_args' = [name_args EXCEPT !.artist = a, !.title = t,
                                           !.position = p, !.quality = quality_]
  /\ fs_ops' = Append(fs_ops, [op |-> "open", name |-> TrackFileName(name_args')])
  /\ naming' = "audio"
  /\ UNCHANGED <<fileVars, outsideNames>>

\* _embed_track_metadata writes the .lrc file next to the audio file (lines
\* 476-484), or writes no sidecar file.
WriteSidecar ==
  /\ naming = "audio"
  /\ \/ fs_ops' = Append(fs_ops, [op |-> "write_text",
                                  name |-> SidecarName(fs_ops[1].name)])
     \/ UNCHANGED fs_ops
  /\ naming' = "returned"
  /\ UNCHANGED <<name_args, fileVars, outsideNames>>

\* download_release names and creates the release directory (lines 518-551).
MakeReleaseFolder ==
  /\ naming = "none"
  /\ \E t \in Names(MaxNameLen) : \E index \in Positions : \E y \in BOOLEAN :
     \E l \in {"none", "LP", "EP", "SINGLE"} :
       name_args' = [name_args EXCEPT !.title = t, !.position = index,
                                      !.has_year = y, !.label = l]
  /\ fs_ops' = Append(fs_ops, [op |-> "mkdir", name |-> FolderName(name_args')])
  /\ naming' = "folder"
  /\ UNCHANGED <<fileVars, outsideNames>>

InitNames == Constructed(max_retries, concurrent_requests)

NextNames == OpenTrackFile \/ WriteSidecar \/ MakeReleaseFolder

SpecNames == InitNames /\ [][NextNames]_vars

(* ------------- the files of a release (lines 547-575, 368-393) --------- *)

\* The records of the release's tracks in the response's 'tracks': the
\* position, the first artist name, the title, and the tier the flow has
\* resolved for the track.
TrackRecords ==
  [position : {0, 1, 2}, artist : {<<"a">>}, title : {<<"a">>, <<"1", "?">>},
   quality : {"flac", "high"}]

\* What is at the path of the release directory before the call: nothing, a
\* directory, a file, or nothing with the parent directory missing too.
PathStates == {"absent", "dir", "file", "no_parent"}

\* (mutant of Mkdir: an existing directory is an error)
MkdirExclusive(before) == IF before = "absent" THEN "dir" ELSE "raised"

\* release_folder.mkdir(exist_ok=True) (line 551): what is at the path
\* afterwards, or "raised" (FileExistsError for a file, FileNotFoundError
\* for a missing parent: there is no parents=True).
Mkdir(before) == IF before \in {"absent", "dir"} THEN "dir" ELSE "raised"

\* The arguments of the download_track call of lines 562-572 for a track
\* with record r: custom_filename=None, position from the record.
FlowArgs(r) ==
  [custom_filename |-> <<>>, artist |-> r.artist, title |-> r.title,
   quality |-> r.quality, position |-> r.position, has_year |-> FALSE,
   label |-> "none"]

\* (mutant of FlowFileName: the prefix counts the files in completion order)
FlowFileNameByCompletion(r) ==
  Format02d(Len(fs_ops)) \o <<".", " ">>
    \o Sanitize(RawBaseName(FlowArgs(r)), TrackAllowed)

\* The file name a track flow of the release computes (lines 372-386).
FlowFileName(r) == TrackFileName(FlowArgs(r))

\* get_releases has answered download_release with the release and its
\* tracks (lines 511-575): the directory is created and the track flows are
\* handed to gather, or mkdir raises and the call ends there.
MakeFolderAndFanOut ==
  /\ naming = "none"
  /\ \E before \in PathStates :
       /\ release_folder' = [before |-> before,
                             now |-> IF Mkdir(before) = "raised" THEN before
                                     ELSE Mkdir(before)]
       /\ IF Mkdir(before) = "raised"
            THEN /\ naming' = "raised"
                 /\ UNCHANGED <<tracks_data, file_flow, fs_ops>>
            ELSE /\ naming' = "gather"
                 /\ fs_ops' = Append(fs_ops, [op |-> "mkdir", name |-> <<"a">>])
                 /\ \E data \in [Tracks -> TrackRecords] : tracks_data' = data
                 /\ file_flow' = [t \in Tracks |->
                                    [stage |-> "created", filename |-> <<>>]]
  /\ UNCHANGED <<name_args, outsideNames>>

\* The event loop starts the flow of track t: download_track runs to its
\* first suspension (line 337).
FlowStarts(t) ==
  /\ naming = "gather"
  /\ file_flow[t].stage = "created"
  /\ file_flow' = [file_flow EXCEPT ![t].stage = "running"]
  /\ UNCHANGED <<naming, name_args, fs_ops, release_folder, tracks_data, outsideNames>>

\* The flow of track t has its stream location and opens its file (lines
\* 368-393); it writes the stream's chunks into it as they arrive.
FlowOpensFile(t) ==
  /\ naming = "gather"
  /\ file_flow[t].stage = "running"
  /\ file_flow' = [file_flow EXCEPT
                     ![t] = [stage |-> "writing", filename |-> FlowFileName(tracks_data[t])]]
  /\ fs_ops' = Append(fs_ops, [op |-> "open", name |-> FlowFileName(tracks_data[t])])
  /\ UNCHANGED <<naming, name_args, release_folder, tracks_data, outsideNames>>

\* The stream of track t has ended or failed: `with open(filepath, 'wb')`
\* closes the file (lines 393-396) and the flow runs to its end.
FlowClosesFile(t) ==
  /\ naming = "gather"
  /\ file_flow[t].stage = "writing"
  /\ file_flow' = [file_flow EXCEPT ![t].stage = "done"]
  /\ UNCHANGED <<naming, name_args, fs_ops, release_folder, tracks_data, outsideNames>>

\* The flow of track t ends before it opens a file (lines 340, 345, 359,
\* 365, 431-435).
FlowEndsWithoutFile(t) ==
  /\ naming = "gather"
  /\ file_flow[t].stage = "running"
  /\ file_flow' = [file_flow EXCEPT ![t].stage = "done"]
  /\ UNCHANGED <<naming, name_args, fs_ops, release_folder, tracks_data, outsideNames>>

\* gather completes and download_release returns (lines 575-579).
FolderDone ==
  /\ naming = "gather"
  /\ \A t \in Tracks : file_flow[t].stage = "done"
  /\ naming' = "returned"
  /\ UNCHANGED <<name_args, fs_ops, release_folder, tracks_data, file_flow, outsideNames>>

InitFolder == Constructed(max_retries, concurrent_requests)

NextFolder ==
  \/ MakeFolderAndFanOut
  \/ FolderDone
  \/ \E t \in Tracks :
       FlowStarts(t) \/ FlowOpensFile(t) \/ FlowClosesFile(t) \/ FlowEndsWithoutFile(t)

SpecFolder == InitFolder /\ [][NextFolder]_vars

(* ------------- the sidecar files (lines 406-425, 441-496) -------------- *)

\* What get_lyrics gives the call: None, an exception, plain text, or
\* time-coded text; for time-coded text, `plain` says that its plain
\* rendering is non-empty and `srt` that its subtitle form is non-empty.
LyricsAnswers ==
  { [kind |-> "None", plain |-> FALSE, srt |-> FALSE],
    [kind |-> "raised", plain |-> FALSE, srt |-> FALSE],
    [kind |-> "plain", plain |-> TRUE, srt |-> FALSE] }
  \cup {[kind |-> "timed", plain |-> p, srt |-> s] : p, s \in BOOLEAN}

\* get_lyrics returned a non-empty text.
HasLyrics(l) == l.kind \in {"plain", "timed"}

\* AudioMetadataManager.split_lyrics_formats: whether plain_text and lrc_text
\* are non-empty.
split_lyrics_formats(l) == [plain_text |-> l.plain, lrc_text |-> l.kind = "timed"]

\* AudioMetadataManager.lrc_to_srt: whether srt_text is non-empty.
lrc_to_srt(l) == l.srt

\* The suffixes of the sidecar files.
Lrc == <<".", "l", "r", "c">>

Txt == <<".", "t", "x", "t">>

Srt == <<".", "s", "r", "t">>

\* (mutant of EmbedPathSidecars: the lyrics file does not wait for save_lyrics)
EmbedPathSidecarsUnasked(a, l) ==
  IF HasLyrics(l)
    THEN (IF split_lyrics_formats(l).lrc_text THEN <<Lrc>> ELSE <<Txt>>)
         \o (IF a.save_subtitles /\ split_lyrics_formats(l).lrc_text /\ lrc_to_srt(l)
               THEN <<Srt>> ELSE <<>>)
    ELSE <<>>

\* Lines 441-452 and 476-494: the sidecar files _embed_track_metadata
\* writes, in order.  `lyrics` is non-empty exactly when get_lyrics returned
\* text (line 450 replaces it by a non-empty plain_text only).
EmbedPathSidecars(a, l) ==
  IF (a.save_lyrics \/ a.save_subtitles) /\ HasLyrics(l)
    THEN (IF a.save_lyrics
            THEN (IF split_lyrics_formats(l).lrc_text THEN <<Lrc>> ELSE <<Txt>>)
            ELSE <<>>)
         \o (IF a.save_subtitles /\ split_lyrics_formats(l).lrc_text /\ lrc_to_srt(l)
               THEN <<Srt>> ELSE <<>>)
    ELSE <<>>

\* Lines 407-423: the sidecar files download_track writes without embedding.
PlainPathSidecars(a, l) ==
  IF (a.save_lyrics \/ a.save_subtitles) /\ HasLyrics(l)
    THEN (IF a.save_lyrics
            THEN (IF split_lyrics_formats(l).lrc_text THEN <<Lrc>>
                  ELSE IF split_lyrics_formats(l).plain_text THEN <<Txt>> ELSE <<>>)
            ELSE <<>>)
         \o (IF a.save_subtitles /\ split_lyrics_formats(l).lrc_text /\ lrc_to_srt(l)
               THEN <<Srt>> ELSE <<>>)
    ELSE <<>>

\* The first n of the files `suffixes` are written next to the audio file;
\* a write_text that raises ends the block (lines 424, 495).
WriteSidecars(suffixes, n) ==
  fs_ops' = fs_ops \o [k \in 1..n |->
                         [op |-> "write_text",
                          name |-> Stem(FinalComponent(fs_ops[1].name)) \o suffixes[k]]]

\* download_track is called and has written its audio file (lines 330-404):
\* get_lyrics is awaited next (line 409 or 444), or, without embedding and
\* without a sidecar request, the call returns.
AudioWritten ==
  /\ naming = "none"
  /\ \E quality_ \in {"flac", "high"} : \E embed, sl, ss \in BOOLEAN :
       /\ name_args' = [name_args EXCEPT !.quality = quality_, !.artist = <<"a">>,
                                         !.embed_metadata = embed,
                                         !.save_lyrics = sl, !.save_subtitles = ss]
       /\ naming' = IF embed \/ sl \/ ss THEN "lyrics" ELSE "returned"
  /\ fs_ops' = Append(fs_ops, [op |-> "open", name |-> TrackFileName(name_args')])
  /\ UNCHANGED <<fileVars, outsideNames>>

\* get_lyrics has answered.  With embedding the cover is fetched next (line
\* 459); without it the sidecar files are written and the call returns.
LyricsAnswered ==
  /\ naming = "lyrics"
  /\ \E l \in LyricsAnswers :
       /\ name_args' = [name_args EXCEPT !.lyrics = l]
       /\ IF name_args.embed_metadata
            THEN /\ naming' = "cover"
                 /\ UNCHANGED fs_ops
            ELSE /\ naming' = "returned"
                 /\ \E n \in 0..Len(PlainPathSidecars(name_args, l)) :
                      WriteSidecars(PlainPathSidecars(name_args, l), n)
  /\ UNCHANGED <<fileVars, outsideNames>>

\* The cover fetch has answered (lines 459-496): embed_metadata runs, then
\* the sidecar files are written; an exception of embed_metadata skips them.
EmbeddedAndSidecars ==
  /\ naming = "cover"
  /\ \E n \in 0..Len(EmbedPathSidecars(name_args, name_args.lyrics)) :
       WriteSidecars(EmbedPathSidecars(name_args, name_args.lyrics), n)
  /\ naming' = "returned"
  /\ UNCHANGED <<name_args, fileVars, outsideNames>>

InitSidecar == Constructed(max_retries, concurrent_requests)

NextSidecar == AudioWritten \/ LyricsAnswered \/ EmbeddedAndSidecars

SpecSidecar == InitSidecar /\ [][NextSidecar]_vars

(* ------------- the track lookup of download_track (lines 335-431) ------ *)

\* What a status-200 JSON answer to get_tracks can hold for the call: no
\* 'result' key; a 'result' without 'tracks'; a well-formed answer whose
\* 'tracks' lacks the requested id; the track's record.
LookupPayloads == {"no_result", "no_tracks", "not_found", "found"}

\* The requests of download_track that pass through make_request.
Retried == {"tracks", "stream_url", "lyrics"}

\* (mutant of AfterLookup: a missing track id is treated as a transient miss
\* and the lookup is made again)
AfterLookupRetriesNotFound(info, embed) ==
  CASE info \in {"None", "no_result"} -> "returned"
    [] info = "no_tracks" -> "returned"
    [] info = "not_found" -> "tracks"
    [] info = "found" -> IF embed THEN "probe" ELSE "stream_url"

\* Lines 338-362: where download_track stands after get_tracks returned
\* info.  A missing 'tracks' key raises KeyError, which line 431 catches.
AfterLookup(info, embed) ==
  CASE info \in {"None", "no_result"} -> "returned"
    [] info = "no_tracks" -> "returned"
    [] info = "not_found" -> "returned"
    [] info = "found" -> IF embed THEN "probe" ELSE "stream_url"

\* The call is at `stage`; on reaching "returned" it has returned res, and on
\* reaching any other stage it has made that stage's request.
GoTo(stage, res) ==
  /\ lookup' = stage
  /\ tries' = 0
  /\ lookup_result' = IF stage = "returned" THEN res ELSE lookup_result
  /\ issued' = IF stage = "returned" THEN issued ELSE Append(issued, stage)

\* download_track is called: get_tracks, and in it the first attempt of
\* make_request (lines 337, 137-141).
DownloadTrack ==
  /\ lookup = "none"
  /\ GoTo("tracks", "none")
  /\ UNCHANGED <<lookup_answer, outsideLookup>>

\* The attempt in flight ends with status 418, another error status, a
\* timeout or an exception (lines 142-146, 159-168): the next attempt is
\* made, or the attempts are used up and make_request returns None (line
\* 170).  Without track info or a stream location download_track returns
\* False (lines 340, 365); without lyrics it goes on (lines 409, 444).
AttemptFails ==
  /\ lookup \in Retried
  /\ IF HasAttempt(tries + 1)
       THEN /\ tries' = tries + 1
            /\ issued' = Append(issued, lookup)
            /\ UNCHANGED <<lookup, lookup_answer, lookup_result>>
       ELSE /\ GoTo("returned", IF lookup = "lyrics" THEN "True" ELSE "False")
            /\ lookup_answer' = IF lookup = "tracks" THEN "None" ELSE lookup_answer
  /\ UNCHANGED outsideLookup

\* The lookup attempt ends with status 200 and a JSON body: make_request
\* returns it at once (lines 148-153) and download_track reads it.
LookupAnswers ==
  /\ lookup = "tracks"
  /\ \E info \in LookupPayloads : \E embed \in BOOLEAN :
       /\ lookup_answer' = info
       /\ GoTo(AfterLookup(info, embed), "False")
  /\ UNCHANGED outsideLookup

\* check_track_qualities has answered (lines 349-362): a tier is available
\* and get_stream_url is called, or none is, or the probe raised.
ProbeDone ==
  /\ lookup = "probe"
  /\ \E stage \in {"stream_url", "returned"} : GoTo(stage, "False")
  /\ UNCHANGED <<lookup_answer, outsideLookup>>

\* get_stream_url has its answer (lines 362-391): the stream is requested,
\* or the answer holds no location.
StreamUrlDone ==
  /\ lookup = "stream_url"
  /\ \E stage \in {"stream", "returned"} : GoTo(stage, "False")
  /\ UNCHANGED <<lookup_answer, outsideLookup>>

\* The stream has ended (lines 392-431): the file is written and get_lyrics
\* is called (lines 409, 444), or the call returns True without it (line
\* 427), or the stream failed (lines 429-435).
StreamEnded ==
  /\ lookup = "stream"
  /\ \/ GoTo("lyrics", "none")
     \/ \E res \in {"True", "False"} : GoTo("returned", res)
  /\ UNCHANGED <<lookup_answer, outsideLookup>>

\* get_lyrics has its answer and download_track returns True (line 427).
LyricsDone ==
  /\ lookup = "lyrics"
  /\ GoTo("returned", "True")
  /\ UNCHANGED <<lookup_answer, outsideLookup>>

InitLookup == Constructed(max_retries, concurrent_requests)

NextLookup ==
  \/ DownloadTrack
  \/ AttemptFails
  \/ LookupAnswers
  \/ ProbeDone
  \/ StreamUrlDone
  \/ StreamEnded
  \/ LyricsDone

SpecLookup == InitLookup /\ [][NextLookup]_vars

(* ------------- the command-line run (lines 760-855, 1381-1391) --------- *)

\* Most releases of a download-artist command in SpecRun.
MaxItems == 2

\* Cap on stats['requests_made'] in SpecRun: the flows stop asking there.
MaxRunRequests == 2

\* The downloading commands of execute_command (lines 811, 821, 848).
Commands == {"track", "release", "artist"}

\* The command lines: cmd_download_track and cmd_download_release call the
\* bot once, cmd_download_artist once per selected release.
CommandLines ==
  {a \in [auth_token : BOOLEAN, command : Commands, items : 0..MaxItems] :
     a.command # "artist" => a.items = 1}

\* (mutant of ReportsOnEnd: print_stats is the last statement of the try
\* block, not a finally clause)
ReportsOnNormalEndOnly(how) == IF how = "normal" THEN 1 ELSE 0

\* The calls of bot.print_stats() when the command ends in the way `how`:
\* the finally clause of execute_command (lines 854-855) runs on a return, on
\* an exception and on a cancellation alike.
ReportsOnEnd(how) == 1

\* The exit status main gives the process (lines 1385-1391): an exception
\* out of asyncio.run is logged and becomes sys.exit(1); KeyboardInterrupt
\* is printed and main returns.
ExitStatus(how) == IF how = "exception" THEN 1 ELSE 0

\* execute_command ends in the way `how` and reports.
EndCommand(how) ==
  /\ ending' = how
  /\ reports' = reports + ReportsOnEnd(how)
  /\ run' = "reported"

\* self.stats['requests_made'] += 1 (line 139), up to the cap.
OneMoreRequest ==
  IF stats.requests_made < MaxRunRequests
    THEN [stats EXCEPT !.requests_made = @ + 1]
    ELSE stats

\* Lines 762-803: the arguments are parsed and the token looked up.  Without
\* a token sys.exit(1) ends the process (line 791: SystemExit is not an
\* Exception, so main passes it on); with one the bot is constructed and
\* execute_command entered.
Run ==
  /\ run = "none"
  /\ \E a \in CommandLines :
       /\ cli_args' = a
       /\ IF a.auth_token
            THEN /\ run' = "command"
                 /\ UNCHANGED exit_status
            ELSE /\ run' = "exited"
                 /\ exit_status' = 1
  /\ UNCHANGED <<stats, item, item_flows, reports, ending, outsideRun>>

\* The command starts its next item: download_track for a track command
\* (line 870), download_release otherwise (lines 921, 1289), which awaits
\* get_releases (line 506).
StartItem ==
  /\ run = "command"
  /\ item < cli_args.items
  /\ item' = item + 1
  /\ IF cli_args.command = "track"
       THEN /\ run' = "flows"
            /\ item_flows' = [t \in Tracks |-> IF t = 1 THEN "in_flight" ELSE "none"]
       ELSE /\ run' = "info"
            /\ item_flows' = [t \in Tracks |-> "none"]
  /\ UNCHANGED <<stats, cli_args, reports, ending, exit_status, outsideRun>>

\* get_releases has answered download_release (lines 506-575): it returns 0,
\* or it hands the track flows to gather.
ReleaseAnswered ==
  /\ run = "info"
  /\ stats' = OneMoreRequest
  /\ \E created \in SUBSET Tracks :
       /\ item_flows' = [t \in Tracks |-> IF t \in created THEN "in_flight" ELSE "none"]
       /\ run' = IF created = {} THEN "command" ELSE "flows"
  /\ UNCHANGED <<cli_args, item, reports, ending, exit_status, outsideRun>>

\* download_release raises (KeyError at line 511, OSError at line 551):
\* nothing catches the exception in cmd_download_release, in
\* cmd_download_artist or in execute_command, whose finally clause reports.
ItemRaises ==
  /\ run = "info"
  /\ stats' = OneMoreRequest
  /\ EndCommand("exception")
  /\ UNCHANGED <<cli_args, item, item_flows, exit_status, outsideRun>>

\* A track flow in flight makes a request (line 139).
FlowRequests(t) ==
  /\ run = "flows"
  /\ item_flows[t] = "in_flight"
  /\ stats.requests_made < MaxRunRequests
  /\ stats' = OneMoreRequest
  /\ UNCHANGED <<runVars, outsideRun>>

\* A track flow in flight ends: the file is written (line 400), or an
\* exception is caught (lines 431-435), or it returns False (lines 340-365).
FlowEnds(t) ==
  /\ run = "flows"
  /\ item_flows[t] = "in_flight"
  /\ item_flows' = [item_flows EXCEPT ![t] = "done"]
  /\ \/ stats' = CountSuccessful
     \/ stats' = CountFailed
     \/ UNCHANGED stats
  /\ UNCHANGED <<run, cli_args, item, reports, ending, exit_status, outsideRun>>

\* Every flow of the item has ended: download_track or gather returns to the
\* command (lines 575, 870).
ItemReturns ==
  /\ run = "flows"
  /\ \A t \in Tracks : item_flows[t] # "in_flight"
  /\ run' = "command"
  /\ UNCHANGED <<stats, cli_args, item, item_flows, reports, ending, exit_status,
                 outsideRun>>

\* The command has no further item: execute_command leaves its try block.
CommandReturns ==
  /\ run = "command"
  /\ item = cli_args.items
  /\ EndCommand("normal")
  /\ UNCHANGED <<stats, cli_args, item, item_flows, exit_status, outsideRun>>

\* The process is interrupted (SIGINT) while the command runs: the task of
\* cli.run() is cancelled, and through gather every flow in flight.
Interrupt ==
  /\ run \in {"command", "info", "flows"}
  /\ run' = "cancelling"
  /\ ending' = "interrupt"
  /\ UNCHANGED <<stats, cli_args, item, item_flows, reports, exit_status, outsideRun>>

\* The cancellation reaches a flow at its suspension point: CancelledError is
\* not an Exception, so neither line 161-163 nor line 431 catches it, and the
\* flow ends there.
FlowCancelled(t) ==
  /\ run = "cancelling"
  /\ item_flows[t] = "in_flight"
  /\ item_flows' = [item_flows EXCEPT ![t] = "cancelled"]
  /\ UNCHANGED <<stats, run, cli_args, item, reports, ending, exit_status, outsideRun>>

\* Every cancelled flow has ended: the cancellation reaches execute_command,
\* whose finally clause reports (lines 854-855).
CancelledCommandReports ==
  /\ run = "cancelling"
  /\ \A t \in Tracks : item_flows[t] # "in_flight"
  /\ reports' = reports + ReportsOnEnd(ending)
  /\ run' = "reported"
  /\ UNCHANGED <<stats, cli_args, item, item_flows, ending, exit_status, outsideRun>>

\* The session is closed (line 802) and asyncio.run returns or raises in
\* main (lines 1385-1391).
Exits ==
  /\ run = "reported"
  /\ run' = "exited"
  /\ exit_status' = ExitStatus(ending)
  /\ UNCHANGED <<stats, cli_args, item, item_flows, reports, ending, outsideRun>>

InitRun == Constructed(max_retries, concurrent_requests)

NextRun ==
  \/ Run
  \/ StartItem
  \/ ReleaseAnswered
  \/ ItemRaises
  \/ ItemReturns
  \/ CommandReturns
  \/ Interrupt
  \/ CancelledCommandReports
  \/ Exits
  \/ \E t \in Tracks : FlowRequests(t) \/ FlowEnds(t) \/ FlowCancelled(t)

SpecRun == InitRun /\ [][NextRun]_vars

(* ------------- the subtitle conversion (lines 419-423, 489-494) -------- *)

\* Most lines of a lyrics text in SpecSubtitles.
MaxLrcLines == 3

\* The duration of the last cue, in milliseconds.
default_duration == 3000

\* The lines of a lyrics text: "[00:12.50]Hello", "[00:15.00]World",
\* "[61:01.05]la" and a line without a timestamp marker.
LrcLineKinds ==
  { [marked |-> TRUE, mm |-> 0, ss |-> 12, xx |-> 50, text |-> "Hello"],
    [marked |-> TRUE, mm |-> 0, ss |-> 15, xx |-> 0, text |-> "World"],
    [marked |-> TRUE, mm |-> 61, ss |-> 1, xx |-> 5, text |-> "la"],
    [marked |-> FALSE, mm |-> 0, ss |-> 0, xx |-> 0, text |-> "prose"] }

\* The texts of up to MaxLrcLines lines.
LrcTexts == UNION {[1..n -> LrcLineKinds] : n \in 0..MaxLrcLines}

\* The timestamp of a marked line [mm:ss.xx], in milliseconds.
Millis(l) == (l.mm * 60 + l.ss) * 1000 + l.xx * 10

\* A line carries a timestamp marker.
IsMarked(l) == l.marked

\* The parser of the time-coded form: one (timestamp, text) pair per marked
\* line, in line order; lines without a marker are ignored.
parse_lrc(lines) ==
  [k \in 1..Len(SelectSeq(lines, IsMarked)) |->
     [at |-> Millis(SelectSeq(lines, IsMarked)[k]),
      text |-> SelectSeq(lines, IsMarked)[k].text]]

\* A time in the subtitle format HH:MM:SS,mmm.
SrtTime(t) ==
  [hh |-> t \div 3600000, mm |-> (t \div 60000) % 60, ss |-> (t \div 1000) % 60,
   mmm |-> t % 1000]

\* The cues of the given pairs: cue k runs from timestamp k to timestamp
\* k + 1, the last cue for default_duration.
srt_cues(pairs) ==
  [k \in 1..Len(pairs) |->
     [index |-> k,
      start |-> SrtTime(pairs[k].at),
      end |-> SrtTime(IF k < Len(pairs) THEN pairs[k + 1].at
                      ELSE pairs[k].at + default_duration),
      text |-> pairs[k].text]]

\* split_lyrics_formats has classified the lyrics as time-coded (lines 411,
\* 448): lrc_text is not empty, so at least one line carries a marker.
LyricsSplit ==
  /\ converting = "none"
  /\ \E text \in LrcTexts :
       /\ \E k \in 1..Len(text) : IsMarked(text[k])
       /\ lrc_text' = text
  /\ converting' = "lrc"
  /\ UNCHANGED <<srt_text, outsideSubtitles>>

\* srt_text = self.metadata_manager.lrc_to_srt(lrc_text) (lines 420, 490).
ConvertToSrt ==
  /\ converting = "lrc"
  /\ srt_text' = srt_cues(parse_lrc(lrc_text))
  /\ converting' = "srt"
  /\ UNCHANGED <<lrc_text, outsideSubtitles>>

InitSubtitles == Constructed(max_retries, concurrent_requests)

NextSubtitles == LyricsSplit \/ ConvertToSrt

SpecSubtitles == InitSubtitles /\ [][NextSubtitles]_vars

(* ------------- SpecSlots: callers of make_request that may be cancelled - *)

\* (mutant of Cancelled: the slot of a cancelled call is not given back)
CancelledKeepsSlot(t) ==
  /\ pc[t] \in {"gate", "delay", "request", "cooldown", "backoff"}
  /\ semaphore' = semaphore
  /\ pc' = [pc EXCEPT ![t] = "cancelled"]
  /\ UNCHANGED <<config, stats, attempt, status, wait_time, response, flowVars>>
  /\ UNCHANGED outsideBot

\* The task awaiting make_request is cancelled: CancelledError is raised at
\* the await the call is suspended in.  At the gate (line 130) no slot has
\* been taken; at the sleeps and the request (lines 135, 141, 145, 168) the
\* exception leaves `async with self.semaphore`, which releases the slot
\* (`except Exception` of line 163 does not catch CancelledError).
Cancelled(t) ==
  /\ pc[t] \in {"gate", "delay", "request", "cooldown", "backoff"}
  /\ semaphore' = IF pc[t] = "gate" THEN semaphore ELSE semaphore + 1
  /\ pc' = [pc EXCEPT ![t] = "cancelled"]
  /\ UNCHANGED <<config, stats, attempt, status, wait_time, response, flowVars>>
  /\ UNCHANGED outsideBot

\* One caller more than there are slots: the fewest callers of which one is
\* suspended at the gate while every slot is held.
SlotCallers == 1..(concurrent_requests + 1)

NextSlots == \E t \in SlotCallers : Call(t) \/ Transport(t) \/ Cancelled(t)

\* The event loop runs every task that is ready: a sleep ends, a request
\* ends within the session's total timeout, and a caller suspended at the
\* gate is woken while a slot stays free.
SpecSlots ==
  /\ InitRequest
  /\ [][NextSlots]_vars
  /\ \A t \in SlotCallers : WF_vars(Transport(t))

(* ------------- SpecWaits: one call of make_request and its sleeps ------ *)

\* `await asyncio.sleep(wait_time)` of lines 145 and 168: the wait of
\* iteration attempt[t] elapses.  Every iteration before it was followed by
\* a wait, so it is wait number attempt[t] + 1 of the call.
SleepElapses(t) ==
  /\ pc[t] \in {"cooldown", "backoff"}
  /\ Len(slept) = attempt[t]
  /\ slept' = Append(slept, [after |-> status[t], wait |-> wait_time[t]])
  /\ UNCHANGED outsideClock

\* The call goes on after the sleep has elapsed.
Wakes(t) ==
  /\ Len(slept) = attempt[t] + 1
  /\ WaitDone(t)

InitWaits == InitCall

NextWaits ==
  \/ Call(1)
  \/ DelayDone(1)
  \/ RespondOk(1)
  \/ RespondTeapot(1)
  \/ RespondFailure(1)
  \/ SleepElapses(1)
  \/ Wakes(1)

SpecWaits == InitWaits /\ [][NextWaits]_vars

(* =============================== claims =============================== *)

\* The calls of make_request that are past the admission gate: in their
\* politeness delay, in an attempt, or in a retry wait.
PastGate == {t \in Tasks : pc[t] \in {"delay", "request", "cooldown", "backoff"}}

\* The callers suspended at the admission gate.
Suspended == {t \in Tasks : pc[t] = "gate"}

\* The network operations that are open: the attempts of make_request that
\* are in flight and the audio streams being fetched.
OpenRequests == {t \in Tasks : pc[t] = "request"}

OpenStreams == {t \in Tasks : flow[t] \in {"fetch", "streaming"}}

\* C1: at every moment at most concurrent_requests calls of make_request are
\* past the admission gate, and the free slots and the admitted calls add up
\* to concurrent_requests: with concurrent_requests calls past the gate no
\* slot is free, so a further caller stays suspended until one returns.
C1_AdmissionBound ==
  /\ Cardinality(PastGate) <= config.concurrent_requests
  /\ semaphore + Cardinality(PastGate) = config.concurrent_requests
  /\ semaphore >= 0

\* C1 witness: concurrent_requests calls are past the gate, one of them in a
\* retry wait, and a further caller is suspended.
C1_Witness ==
  /\ Cardinality(PastGate) = config.concurrent_requests
  /\ Suspended # {}
  /\ \E t \in PastGate : pc[t] = "backoff"

\* C2 (as claimed): the open network operations, service calls plus audio
\* stream fetches, never exceed concurrent_requests.
C2_AllNetworkGated ==
  Cardinality(OpenRequests) + Cardinality(OpenStreams) <= config.concurrent_requests

\* The attempts a make_request call of task t has issued so far.
Issued(t) == IF pc[t] \in {"none", "gate", "delay"} THEN 0 ELSE attempt[t] + 1

RECURSIVE SumIssued(_)
SumIssued(S) ==
  IF S = {} THEN 0
  ELSE LET t == CHOOSE x \in S : TRUE IN Issued(t) + SumIssued(S \ {t})

\* Task t starts an attempt in this step.
StartsAttempt(t) ==
  /\ pc'[t] = "request"
  /\ pc[t] # "request"
  /\ attempt'[t] = IF pc[t] = "delay" THEN 0 ELSE attempt[t] + 1

\* C3 (as claimed): an attempt that gets status 200 ends the call with the
\* payload, so no attempt follows a status 200.
C3_First200Returns ==
  \A t \in Callers :
    status[t] \in {"ok", "body_error"} =>
      (pc[t] = "returned" /\ response[t] = "payload")

\* C3 (amended): a call issues at most max_retries attempts; it returns None,
\* without raising, exactly when its last permitted attempt failed; it
\* returns the payload exactly when an attempt got status 200 and its body
\* was read, and that attempt is the last one issued.  A status 200 whose
\* body cannot be read is an ordinary failure of the attempt.
C3_AttemptCap ==
  \A t \in Callers :
    /\ Issued(t) <= config.max_retries
    /\ stats.requests_made <= config.max_retries
    /\ pc[t] = "returned" =>
         /\ response[t] \in {"payload", "None"}
         /\ stats.requests_made = attempt[t] + 1
         /\ response[t] = "None" <=>
              /\ attempt[t] = config.max_retries - 1
              /\ status[t] \in OrdinaryFailures \cup {"teapot"}
         /\ response[t] = "payload" <=> status[t] = "ok"
    /\ status[t] = "ok" => pc[t] = "returned"
    /\ status[t] = "body_error" =>
         \/ pc[t] = "backoff" /\ attempt[t] < config.max_retries - 1
         \/ pc[t] = "returned" /\ response[t] = "None"

\* C3 witness: with the default cap of 5, a status 200 with an unreadable
\* body on attempt 2 is retried, and the call has issued attempt 3.
C3_Witness ==
  /\ config.max_retries = 5
  /\ pc[1] = "returned"
  /\ response[1] = "None"
  /\ status[1] = "body_error"
  /\ stats.requests_made = 5

\* C4: requests_made is the number of attempts issued, summed over the calls
\* (k for a call that returned on attempt k, max_retries for one that
\* exhausted its retries), and it changes only in a step that starts an
\* attempt, by exactly one: never while a call waits.
C4_OncePerAttempt ==
  /\ [](/\ stats.requests_made = SumIssued(Callers)
        /\ \A t \in Callers :
             pc[t] = "returned" =>
               /\ response[t] = "payload" => Issued(t) = attempt[t] + 1
               /\ response[t] = "None" => Issued(t) = config.max_retries)
  /\ [][stats'.requests_made # stats.requests_made =>
          /\ stats'.requests_made = stats.requests_made + 1
          /\ \E t \in Callers : StartsAttempt(t)]_vars

\* C4 witness: a 418 on attempt 1, one cool-down, a 200 on attempt 2: the
\* payload is returned and requests_made has grown by exactly 2.
C4_Witness ==
  \E t \in Callers :
    /\ pc[t] = "returned"
    /\ response[t] = "payload"
    /\ attempt[t] = 1
    /\ wait_time[t] = config.retry_delay * 2
    /\ stats.requests_made = 2

\* C5: the wait after a 418 on attempt a (1-based) is retry_delay * a * 2,
\* the wait after an ordinary failure on attempt a is retry_delay * a, the
\* cool-down is strictly the longer of the two, and a 418 on the last
\* permitted attempt ends the call with None like an ordinary failure.
C5_WaitTimes ==
  \A t \in Callers :
    /\ pc[t] = "cooldown" =>
         /\ status[t] = "teapot"
         /\ wait_time[t] = config.retry_delay * (attempt[t] + 1) * 2
         /\ wait_time[t] > config.retry_delay * (attempt[t] + 1)
         /\ attempt[t] < config.max_retries
    /\ pc[t] = "backoff" =>
         /\ status[t] \in OrdinaryFailures
         /\ wait_time[t] = config.retry_delay * (attempt[t] + 1)
    /\ (pc[t] = "returned" /\ status[t] = "teapot") =>
         /\ response[t] = "None"
         /\ attempt[t] = config.max_retries - 1
         /\ wait_time[t] = config.retry_delay * config.max_retries * 2

\* C5 witness: the cool-down after a 418 on attempt 3 is 18 seconds with
\* the default retry_delay of 3.
C5_Witness ==
  /\ pc[1] = "cooldown"
  /\ attempt[1] = 2
  /\ wait_time[1] = 18

\* C6: a timeout or another exception during an attempt of task t is followed
\* by the ordinary wait (or, on the last attempt, by the return of None), the
\* wait is followed by the next attempt, and the step changes nothing of any
\* other task's call.
C6_FailureIsLocal ==
  [][\A t \in Callers :
       /\ (pc[t] = "request" /\ status'[t] \in {"timeout", "exception"}) =>
            /\ \/ /\ attempt[t] < config.max_retries - 1
                  /\ pc'[t] = "backoff"
                  /\ wait_time'[t] = config.retry_delay * (attempt[t] + 1)
                  /\ attempt'[t] = attempt[t]
                  /\ semaphore' = semaphore
               \/ /\ attempt[t] = config.max_retries - 1
                  /\ pc'[t] = "returned"
                  /\ response'[t] = "None"
                  /\ semaphore' = semaphore + 1
            /\ \A u \in Tasks \ {t} :
                 /\ pc'[u] = pc[u]
                 /\ attempt'[u] = attempt[u]
                 /\ status'[u] = status[u]
                 /\ wait_time'[u] = wait_time[u]
                 /\ response'[u] = response[u]
            /\ stats' = stats
       /\ (pc[t] = "request" /\ pc'[t] = "request") => attempt'[t] = attempt[t]
       /\ (pc[t] = "backoff" /\ pc'[t] # "backoff") =>
            /\ pc'[t] = "request"
            /\ attempt'[t] = attempt[t] + 1]_vars

\* C6 witness: one call waits after a timeout while another call is in
\* flight and a third has returned its payload.
C6_Witness ==
  \E t, u, v \in Callers :
    /\ pc[t] = "backoff" /\ status[t] = "timeout"
    /\ pc[u] = "request"
    /\ pc[v] = "returned" /\ response[v] = "payload"

\* The flows of the release that have finished.
Finished == {t \in tasks : result[t] # "none"}

\* C7: download_release creates all of its track flows before it waits, and
\* returns only after every one of them has finished; a step in which one
\* flow ends with failure changes nothing of any sibling flow and does not
\* end the release flow.
C7_JoinsEveryFlow ==
  /\ [](/\ rel = "gather" => \A t \in tasks : flow[t] # "none"
        /\ rel = "returned" =>
             \A t \in tasks : flow[t] = "done" /\ result[t] \in {"True", "False"})
  /\ [][\A t \in Tracks :
          (result[t] = "none" /\ result'[t] = "False") =>
            /\ rel' = rel
            /\ tasks' = tasks
            /\ \A u \in Tracks \ {t} :
                 /\ flow'[u] = flow[u]
                 /\ result'[u] = result[u]
                 /\ pc'[u] = pc[u]
                 /\ attempt'[u] = attempt[u]
                 /\ response'[u] = response[u]]_vars

\* C7 witness: the release flow has returned after a batch of two flows, of
\* which one failed and the other succeeded.
C7_Witness ==
  /\ rel = "returned"
  /\ \E t, u \in tasks : result[t] = "False" /\ result[u] = "True"

\* C8: the integer download_release returns is the number of its flows that
\* returned True, and is at most the number of the release's track ids.
C8_CountsSuccesses ==
  rel = "returned" =>
    /\ downloaded_count = Cardinality({t \in Tracks : result[t] = "True"})
    /\ downloaded_count <= Cardinality(track_ids)
    /\ downloaded_count + Cardinality({t \in tasks : result[t] = "False"})
         = Cardinality(tasks)

\* C8 witness: a release of two flows returns 1, the other flow having
\* returned False.
C8_Witness ==
  /\ rel = "returned"
  /\ downloaded_count = 1
  /\ Cardinality(tasks) = 2
  /\ \E t \in tasks : result[t] = "False"

\* C9 (as claimed): once the fan-out is done, every id of the release's
\* track_ids has a flow of its own.
C9_FlowForEveryId ==
  rel \in {"gather", "returned"} => tasks = track_ids

\* C10 (as claimed): when the release flow has returned, every finished
\* download_track call is counted once, as a success or as a failure.
C10_EveryFailureRecorded ==
  rel = "returned" =>
    /\ stats.failed_downloads = Cardinality({t \in tasks : result[t] = "False"})
    /\ stats.successful_downloads + stats.failed_downloads = Cardinality(Finished)

\* The states of a single-track flow in their order: resolve-track-info,
\* resolve-quality, resolve-stream-location, stream-to-disk (the fetch and the
\* chunks), embed-metadata with its lyrics and cover fetches and the sidecar
\* files, and the return.
StageRank(stage) ==
  CASE stage = "none"       -> 0
    [] stage = "created"    -> 1
    [] stage = "tracks"     -> 2
    [] stage = "probe"      -> 3
    [] stage = "stream_url" -> 4
    [] stage = "fetch"      -> 5
    [] stage = "streaming"  -> 6
    [] stage = "lyrics"     -> 7
    [] stage = "cover"      -> 8
    [] stage = "done"       -> 9

\* The stages before stream-to-disk has completed.
BeforeWritten == {"tracks", "probe", "stream_url", "fetch", "streaming"}

\* The stages of _embed_track_metadata.
Embedding == {"lyrics", "cover"}

\* C11: a single-track flow enters its states only in the order
\* resolve-track-info, resolve-quality, resolve-stream-location,
\* stream-to-disk, embed-metadata and sidecars, each from the one before; a
\* flow that leaves a state before stream-to-disk has completed otherwise than
\* to the next state has returned False, and a returned flow enters no state.
C11_StatesInOrder ==
  /\ [](\A t \in Tracks :
          /\ result[t] # "none" <=> flow[t] = "done"
          /\ flow[t] \in {"none", "created", "probe", "fetch", "streaming",
                          "cover", "done"} => pc[t] = "none")
  /\ [][\A t \in Tracks :
          flow'[t] # flow[t] =>
            /\ flow[t] # "done"
            /\ \/ /\ flow[t] \in BeforeWritten \cup {"created"}
                  /\ flow[t] # "streaming"
                  /\ StageRank(flow'[t]) = StageRank(flow[t]) + 1
               \/ /\ flow[t] = "streaming"
                  /\ flow'[t] = "lyrics"
               \/ /\ flow[t] = "lyrics"
                  /\ flow'[t] = "cover"
               \/ /\ flow[t] = "none"
                  /\ flow'[t] = "created"
               \/ /\ flow'[t] = "done"
                  /\ result'[t] = IF flow[t] \in BeforeWritten THEN "False" ELSE "True"]_vars

\* C11 witness: one flow has failed at the stream-location lookup and
\* returned False while its sibling is writing its stream to disk.
C11_Witness ==
  \E t, u \in Tracks :
    /\ result[t] = "False"
    /\ stats.failed_downloads = 0
    /\ flow[u] = "streaming"
    /\ stats.total_data_downloaded > 0

\* C12: a flow begins embedding (its lyrics fetch first) only in the step
\* that writes the last chunk, closes the file and counts the download; no
\* make_request call of the flow is open while its stream is fetched; a
\* cover or an embedding is counted only by a flow that is embedding.
C12_EmbedAfterWritten ==
  /\ [](/\ \A t \in Tracks :
             flow[t] \in {"fetch", "streaming"} => pc[t] = "none"
        /\ stats.metadata_embedded <= stats.successful_downloads
        /\ stats.covers_downloaded <= stats.successful_downloads)
  /\ [][/\ \A t \in Tracks :
             (flow'[t] \in Embedding /\ flow[t] \notin Embedding) =>
               /\ flow[t] = "streaming"
               /\ flow'[t] = "lyrics"
               /\ stats'.successful_downloads = stats.successful_downloads + 1
        /\ (\/ stats'.metadata_embedded # stats.metadata_embedded
            \/ stats'.covers_downloaded # stats.covers_downloaded) =>
             \E t \in Tracks : flow[t] \in Embedding /\ flow'[t] = "done"]_vars

\* C12 witness: one flow is embedding (its cover is being fetched) while
\* another flow is still writing chunks.
C12_Witness ==
  \E t, u \in Tracks :
    /\ flow[t] = "cover"
    /\ flow[u] = "streaming"
    /\ stats.successful_downloads = 1

\* C13: every flow whose audio is fully written is embedding or has returned
\* True, so a failure of a later step takes back neither the success count
\* nor the result; failed_downloads counts only flows that returned False,
\* and metadata_embedded only flows that returned True.
C13_WrittenStaysSuccess ==
  /\ stats.successful_downloads =
       Cardinality({t \in Tracks : flow[t] \in Embedding \/ result[t] = "True"})
  /\ stats.failed_downloads <= Cardinality({t \in Tracks : result[t] = "False"})
  /\ stats.metadata_embedded <= Cardinality({t \in Tracks : result[t] = "True"})

\* C13 witness: both flows returned True, both downloads are counted, no
\* failure is counted, and only one embedding succeeded.
C13_Witness ==
  /\ rel = "returned"
  /\ downloaded_count = 2
  /\ stats.successful_downloads = 2
  /\ stats.failed_downloads = 0
  /\ stats.metadata_embedded = 1

\* The release record has a date that _release_date_int can read.
DateKnown(data) == release_date_int(data) # 99999999

\* cmd_download_artist has ended, by returning or by an exception.
ArtistEnded == art \in {"done", "raised"}

\* C14 (as claimed): no exception of a release ends the artist sequence:
\* when cmd_download_artist has ended it has returned, and download_release
\* was called for every chosen release.
C14_EveryReleaseProcessed ==
  ArtistEnded =>
    /\ art = "done"
    /\ Len(started) = Len(albums_to_download)

\* C18 (as claimed): among the chosen releases every release whose date is
\* unknown or unreadable comes after all dated releases.
C18_UnknownDatesLast ==
  \A a, b \in 1..Len(albums_to_download) :
    (DateKnown(albums_to_download[a]) /\ ~DateKnown(albums_to_download[b])) => a < b

TierRank(q) == CHOOSE k \in 1..Len(Tiers) : Tiers[k] = q

\* C15: after a probe, the tier of the stream-location request is marked
\* available by the probe; it is the requested tier when that is available,
\* otherwise no available tier comes before it in the order flac, high, mid;
\* and when the probe marks no tier available the call has failed without a
\* stream-location request.
C15_ResolvedTierAvailable ==
  (args.embed_metadata /\ resolve \in {"stream_url", "fetch", "failed"}) =>
    IF stream_quality # "none"
      THEN /\ quality_results[stream_quality] = "yes"
           /\ quality_results[args.quality] = "yes" => stream_quality = args.quality
           /\ \A q \in TierSet :
                quality_results[q] = "yes" =>
                  \/ stream_quality = args.quality
                  \/ TierRank(stream_quality) <= TierRank(q)
      ELSE /\ resolve = "failed"
           /\ \A q \in TierSet : quality_results[q] # "yes"

\* C15 witness: flac was requested, the probe marks flac unavailable, high
\* absent and mid available, and the stream location is requested at mid.
C15_Witness ==
  /\ args = [quality |-> "flac", embed_metadata |-> TRUE]
  /\ quality_results = [q \in TierSet |->
                          IF q = "flac" THEN "no" ELSE IF q = "high" THEN "absent" ELSE "yes"]
  /\ resolve = "stream_url"
  /\ stream_quality = "mid"

\* The tracks processed so far whose record was found.
FoundTracks == {k \in 1..Len(infos) : infos[k].found}

\* The qualities at which the stream of track k was requested.
RequestedAt(k) ==
  {stream_requests[n].quality : n \in {m \in 1..Len(stream_requests) :
                                         stream_requests[m].id = k}}

\* Track k is in failed_tracks.
InFailed(k) == \E n \in 1..Len(failed_tracks) : failed_tracks[n] = k

\* C16: with FLAC configured and a track without FLAC, the stream is
\* requested at `high` when fallback_to_lower_quality is enabled; when it is
\* disabled no stream is requested, no file is written and the track id is
\* in failed_tracks.
C16_FallbackOrSkip ==
  \A k \in FoundTracks :
    (sber_config.format = "1" /\ ~infos[k].has_flac) =>
      IF sber_config.fallback_to_lower_quality
        THEN RequestedAt(k) = {"high"}
        ELSE /\ RequestedAt(k) = {}
             /\ k \notin files
             /\ InFailed(k)

\* C16 witness: FLAC is configured without fallback; the first track has no
\* FLAC and was skipped, the second has FLAC and its file is written.
C16_Witness ==
  /\ sber_config.format = "1"
  /\ ~sber_config.fallback_to_lower_quality
  /\ Len(infos) = 2
  /\ infos[1].found /\ ~infos[1].has_flac
  /\ failed_tracks = <<1>>
  /\ files = {2}
  /\ RequestedAt(2) = {"flac"}

\* C17 (as claimed): with MP3 configured every found track has its stream
\* requested at `high`, whatever has_flac and fallback_to_lower_quality are.
C17_Mp3AlwaysHigh ==
  sber_config.format = "2" =>
    \A k \in FoundTracks : RequestedAt(k) = {"high"}

\* The ids of the first n pages of the service's answers, in their order.
RECURSIVE IdsUpTo(_)
IdsUpTo(n) ==
  IF n = 0 THEN <<>> ELSE IdsUpTo(n - 1) \o IdsOf(pages[n].releases)

\* C20: with limit > 0 get_artist_releases returns at most limit ids, the
\* first ids the service returned in page order; with limit <= 0 it returns
\* every id of every page up to the first terminating page, which is the
\* last page it requested.
C20_LimitAndOrder ==
  /\ \A n \in 1..(Len(pages) - 1) : pages[n].kind = "releases"
  /\ paging = "request" => collected = IdsUpTo(Len(pages))
  /\ paging = "returned" =>
       IF list_limit > 0
         THEN /\ Len(collected) <= list_limit
              /\ collected = SubSeq(IdsUpTo(Len(pages)), 1, Len(collected))
              /\ \/ pages[Len(pages)].kind \in Terminating
                 \/ Len(collected) = list_limit
         ELSE /\ collected = IdsUpTo(Len(pages))
              /\ pages[Len(pages)].kind \in Terminating

\* C20 witness: with limit 3 the call returns the ids 1, 2, 4 taken from
\* three pages, one of which had an entry without id and the last of which
\* brought one id more than the limit allows.
C20_Witness ==
  /\ paging = "returned"
  /\ list_limit = 3
  /\ Len(pages) = 3
  /\ collected = <<1, 2, 4>>
  /\ Len(IdsUpTo(3)) = 4

\* C21 (as claimed): a page request answered by None, by a malformed page or
\* by an empty page is the last one, and the call returns, without raising,
\* exactly the ids of the pages before it.
C21_TerminalPageReturns ==
  (pages # <<>> /\ pages[Len(pages)].kind # "releases") =>
    /\ paging = "returned"
    /\ collected = IdsUpTo(Len(pages) - 1)

\* Every character of name is a letter, a digit or one of `allowed`.
OnlyPermitted(name, allowed) ==
  \A k \in 1..Len(name) : isalnum(name[k]) \/ name[k] \in allowed

\* The characters permitted in the name an operation writes: brackets are
\* permitted in directory names only.
PermittedFor(op) == IF op = "mkdir" THEN FolderAllowed ELSE TrackAllowed

\* C22 (as claimed): the final component of every path written (audio file,
\* sidecar file, release directory) consists of permitted characters only,
\* for every input including a custom file name.
C22_WrittenNamesPermitted ==
  \A k \in 1..Len(fs_ops) :
    OnlyPermitted(FinalComponent(fs_ops[k].name), PermittedFor(fs_ops[k].op))

\* The strings the call in progress hands, or could hand, to the
\* sanitization: the name it built and the texts it was given.
SanitizeInputs ==
  {RawBaseName(name_args), RawFolderName(name_args), name_args.title,
   name_args.custom_filename}

\* C23: for every string s and both permitted sets, the sanitized name holds
\* permitted characters only, has no trailing whitespace, is s without its
\* other characters and without the spaces at the end of what remains, and
\* sanitizing it again yields the same name.
C23_SanitizeIdempotent ==
  \A s \in SanitizeInputs : \A allowed \in {TrackAllowed, FolderAllowed} :
    LET clean == Sanitize(s, allowed)
    IN /\ Sanitize(clean, allowed) = clean
       /\ OnlyPermitted(clean, allowed)
       /\ clean = <<>> \/ ~isspace(clean[Len(clean)])
       /\ \E n \in 0..Len(s) :
            Keep(s, allowed) = clean \o [k \in 1..n |-> " "]

\* C23 witness: the directory name "01.  ?" (index 1, title " ?") loses its
\* question mark and then the spaces that the question mark had shielded,
\* and the directory "01." is created.
C23_Witness ==
  /\ naming = "folder"
  /\ name_args.title = <<" ", "?">>
  /\ RawFolderName(name_args) = <<"0", "1", ".", " ", " ", "?">>
  /\ fs_ops[1].name = <<"0", "1", ".">>

\* The names of the files opened so far.
OpenedNames == {fs_ops[k].name : k \in {n \in 1..Len(fs_ops) : fs_ops[n].op = "open"}}

\* The tracks of the release whose flow has written its file.
WrittenTracks == {t \in Tracks : file_flow[t].filename # <<>>}

\* The file name of a track with record r, from its position, artist and
\* title and the extension of its tier.
NameOfRecord(r) ==
  LET base == Sanitize(r.artist \o <<" ", "-", " ">> \o r.title \o <<".">>
                         \o (IF r.quality = "flac" THEN <<"f", "l", "a", "c">>
                             ELSE <<"m", "p", "3">>),
                       TrackAllowed)
  IN IF r.position > 0 THEN Format02d(r.position) \o <<".", " ">> \o base ELSE base

\* C24: the file name of every track of a release is determined by the
\* track's own record (position, artist, title, and the extension of its
\* tier), whatever the other flows have done and in whatever order the files
\* were written; so the set of file names of a run is determined by the
\* release's records and by which flows wrote a file.
C24_NamesFromOwnRecord ==
  /\ \A t \in WrittenTracks : file_flow[t].filename = NameOfRecord(tracks_data[t])
  /\ OpenedNames = {NameOfRecord(tracks_data[t]) : t \in WrittenTracks}

\* C24 witness: the track at position 2 wrote its file before the track at
\* position 1, and the files are named by position all the same.
C24_Witness ==
  /\ naming = "returned"
  /\ Len(fs_ops) = 3
  /\ \E t, u \in Tracks :
       /\ tracks_data[t].position = 1 /\ tracks_data[u].position = 2
       /\ fs_ops[2].name = file_flow[u].filename
       /\ fs_ops[3].name = file_flow[t].filename
       /\ SubSeq(fs_ops[2].name, 1, 2) = <<"0", "2">>
       /\ SubSeq(fs_ops[3].name, 1, 2) = <<"0", "1">>

\* C25: whenever a track flow of the release exists, the release directory
\* exists and its mkdir was the first filesystem operation of the call; a
\* directory that was there before the call is no error: the call goes on to
\* the fan-out; and a call whose mkdir raised has created no flow.
C25_FolderBeforeFlows ==
  /\ (\E t \in Tracks : file_flow[t].stage # "none") =>
       /\ release_folder.now = "dir"
       /\ fs_ops # <<>> /\ fs_ops[1].op = "mkdir"
       /\ \A k \in 2..Len(fs_ops) : fs_ops[k].op # "mkdir"
  /\ (naming \in {"gather", "returned", "raised"} /\ release_folder.before = "dir") =>
       /\ naming # "raised"
       /\ \A t \in Tracks : file_flow[t].stage # "none"
  /\ naming = "raised" =>
       /\ release_folder.before \in {"file", "no_parent"}
       /\ \A t \in Tracks : file_flow[t].stage = "none"

\* C25 witness: the directory existed before the call, and both flows of the
\* release have run and written their files into it.
C25_Witness ==
  /\ release_folder.before = "dir"
  /\ naming = "returned"
  /\ WrittenTracks = Tracks

\* The last four characters of the names written with write_text: the
\* suffixes of the sidecar files written so far.
SidecarSuffixes ==
  {SubSeq(fs_ops[k].name, Len(fs_ops[k].name) - 3, Len(fs_ops[k].name)) :
     k \in {n \in 1..Len(fs_ops) : fs_ops[n].op = "write_text"}}

\* C26: on both paths of download_track, a .lrc file is written only with
\* save_lyrics and time-coded lyrics, a .txt file only with save_lyrics and
\* non-empty plain lyrics, a .srt file only with save_subtitles and
\* time-coded lyrics, and nothing else is written next to the audio file; so
\* with neither flag set no sidecar file is written.
C26_SidecarsOnlyOnRequest ==
  /\ SidecarSuffixes \subseteq {Lrc, Txt, Srt}
  /\ Lrc \in SidecarSuffixes =>
       name_args.save_lyrics /\ name_args.lyrics.kind = "timed"
  /\ Txt \in SidecarSuffixes =>
       name_args.save_lyrics /\ name_args.lyrics.plain
  /\ Srt \in SidecarSuffixes =>
       name_args.save_subtitles /\ name_args.lyrics.kind = "timed"
  /\ (~name_args.save_lyrics /\ ~name_args.save_subtitles) => SidecarSuffixes = {}

\* C26 witness: with embedding and only save_subtitles set, time-coded
\* lyrics give the .srt file and no .lrc file.
C26_Witness ==
  /\ naming = "returned"
  /\ name_args.embed_metadata
  /\ ~name_args.save_lyrics
  /\ name_args.save_subtitles
  /\ name_args.lyrics.kind = "timed"
  /\ SidecarSuffixes = {Srt}

\* The flows that write their last chunk in this step (line 400).
CompletesStream(t) == flow[t] = "streaming" /\ flow'[t] = "lyrics"

\* C27: every step changes each counter by exactly the events of that step:
\* requests_made by the attempts started, successful_downloads by the
\* streams completed, total_data_downloaded by one chunk and only while a
\* stream is being written, failed_downloads by at most one and only when a
\* flow returns False, covers_downloaded and metadata_embedded by at most one
\* and only when an embedding flow returns; no step of one flow takes back or
\* overwrites what another flow has counted.
C27_IncrementsAtomic ==
  [][/\ stats'.requests_made =
          stats.requests_made + Cardinality({t \in Tasks : StartsAttempt(t)})
     /\ stats'.successful_downloads =
          stats.successful_downloads + Cardinality({t \in Tracks : CompletesStream(t)})
     /\ stats'.total_data_downloaded \in
          {stats.total_data_downloaded, stats.total_data_downloaded + 1}
     /\ stats'.total_data_downloaded # stats.total_data_downloaded =>
          \E t \in Tracks : flow[t] = "streaming" /\ flow'[t] = "streaming"
     /\ stats'.failed_downloads \in
          {stats.failed_downloads, stats.failed_downloads + 1}
     /\ stats'.failed_downloads # stats.failed_downloads =>
          \E t \in Tracks : result[t] = "none" /\ result'[t] = "False"
     /\ stats'.covers_downloaded \in
          {stats.covers_downloaded, stats.covers_downloaded + 1}
     /\ stats'.metadata_embedded \in
          {stats.metadata_embedded, stats.metadata_embedded + 1}
     /\ (\/ stats'.covers_downloaded # stats.covers_downloaded
         \/ stats'.metadata_embedded # stats.metadata_embedded) =>
          \E t \in Tracks : flow[t] \in Embedding /\ result'[t] = "True"]_vars

\* C27 witness: two flows of the release are between their last chunk and
\* their return at the same time, and both downloads are counted.
C27_Witness ==
  /\ \A t \in Tracks : flow[t] \in Embedding
  /\ stats.successful_downloads = NumTracks
  /\ stats.requests_made >= 1 + 2 * NumTracks

\* C28: when the lookup is answered by a well-formed response that lacks the
\* track id, download_track has returned False, every request made for the
\* track is a lookup attempt, and from then on no request is made: neither a
\* retry of the lookup nor a probe, stream-location, stream or lyrics request.
C28_NotFoundEndsTheCall ==
  [][lookup_answer' = "not_found" =>
       /\ lookup' = "returned"
       /\ lookup_result' = "False"
       /\ \A k \in 1..Len(issued') : issued'[k] = "tracks"
       /\ lookup_answer = "not_found" => issued' = issued]_vars

\* C28 witness: the first lookup attempt failed, the second was answered
\* without the track id, and the call returned False after these two requests.
C28_Witness ==
  /\ lookup_answer = "not_found"
  /\ lookup = "returned"
  /\ lookup_result = "False"
  /\ issued = <<"tracks", "tracks">>

\* C29 (as claimed): the process exits with a failure status exactly when no
\* auth token was found, and then before any request is made; no failure of
\* an item makes the exit status a failure.
C29_ExitStatusFromPreconditions ==
  run = "exited" =>
    /\ exit_status # 0 <=> ~cli_args.auth_token
    /\ ~cli_args.auth_token => stats.requests_made = 0 /\ item = 0

\* C30: once execute_command has been entered, the statistics are reported
\* exactly once however the command ends (return, exception, interruption),
\* never twice, and from the interruption or the report on no counter
\* changes: a flow in flight at the interruption is neither resumed nor
\* completed.
C30_ReportedOnceThenQuiet ==
  [][/\ reports' <= 1
     /\ (run' = "exited" /\ cli_args'.auth_token) => reports' = 1
     /\ run' = "reported" => reports' = 1
     /\ ending # "none" => stats' = stats
     /\ ending # "none" =>
          \A t \in Tracks : item_flows'[t] = "done" => item_flows[t] = "done"]_vars

\* C30 witness: a release command was interrupted with one flow finished and
\* counted and the other in flight; that flow was cancelled, the partial
\* statistics were reported once, and the process has exited.
C30_Witness ==
  /\ run = "exited"
  /\ ending = "interrupt"
  /\ cli_args.command = "release"
  /\ item_flows[1] = "done"
  /\ item_flows[2] = "cancelled"
  /\ stats.successful_downloads = 1
  /\ reports = 1

\* How often track_id is in failed_tracks.
TimesFailed(track_id) ==
  Cardinality({k \in 1..Len(failed_tracks) : failed_tracks[k] = track_id})

\* The track ids add_lyrics has been called with.
LyricsCalled == {lyrics_calls[k] : k \in 1..Len(lyrics_calls)}

\* C31: every add_metadata call that failed, at the cover fetch or at the
\* tags, has returned to download_track with the track id appended to
\* failed_tracks once, and with config['lyrics'] set the lyrics step of that
\* track follows.
C31_MetadataFailureContained ==
  \A k \in 1..Len(tag_calls) :
    tag_calls[k].outcome # "ok" =>
      /\ TimesFailed(tag_calls[k].id) = 1
      /\ sber_config.lyrics =>
           \/ tag_calls[k].id \in LyricsCalled
           \/ sber = "lyrics" /\ link = tag_calls[k].id

\* C31 witness: add_metadata failed at the cover of track 1, add_lyrics was
\* called for track 1 all the same, and the file of track 2 has been written.
C31_Witness ==
  /\ Len(tag_calls) >= 1
  /\ tag_calls[1] = [id |-> 1, outcome |-> "cover_failed"]
  /\ failed_tracks = <<1>>
  /\ 1 \in LyricsCalled
  /\ 2 \in files

\* The timestamped lines of the lyrics text, in line order.
TimedLines == SelectSeq(lrc_text, IsMarked)

\* A subtitle time in milliseconds.
SrtMillis(t) == ((t.hh * 60 + t.mm) * 60 + t.ss) * 1000 + t.mmm

\* N timestamped lines give N cues numbered 1..N; cue k starts at timestamp
\* k and ends at timestamp k + 1, the last cue default_duration after its
\* start, and carries the text of line k.
CuesFollowLines ==
  /\ Len(srt_text) = Len(TimedLines)
  /\ \A k \in 1..Len(srt_text) :
       /\ srt_text[k].index = k
       /\ SrtMillis(srt_text[k].start) = Millis(TimedLines[k])
       /\ SrtMillis(srt_text[k].end) =
            IF k < Len(srt_text) THEN Millis(TimedLines[k + 1])
            ELSE Millis(TimedLines[k]) + default_duration
       /\ srt_text[k].text = TimedLines[k].text
       /\ srt_text[k].start.mm < 60 /\ srt_text[k].start.ss < 60
       /\ srt_text[k].start.mmm < 1000

\* The start times of the cues do not decrease with the cue index.
StartsInOrder ==
  \A j, k \in 1..Len(srt_text) :
    j < k => SrtMillis(srt_text[j].start) <= SrtMillis(srt_text[k].start)

\* C32 (as claimed): for every time-coded lyrics text the conversion gives
\* one cue per timestamped line, numbered from 1, cue k spanning timestamp k
\* to timestamp k + 1 (the last cue its start plus the default duration), and
\* the cue start times are non-decreasing in the cue index.
C32_CuesCountedAndOrdered ==
  converting = "srt" => CuesFollowLines /\ StartsInOrder

\* The flows that have passed line 400, where the success is counted.
CountedSuccess == {t \in tasks : flow[t] \in Embedding \/ result[t] = "True"}

\* C33: each download_track call counts at most once, as a success or as a
\* failure and never as both, and returns True exactly when it counted a
\* success: successful_downloads is the number of calls that have passed line
\* 400, none of which returns False, and failed_downloads is at most the
\* number of calls that returned False.
C33_CountedOnceEitherWay ==
  /\ stats.successful_downloads = Cardinality(CountedSuccess)
  /\ stats.failed_downloads <= Cardinality({t \in tasks : result[t] = "False"})
  /\ stats.successful_downloads + stats.failed_downloads <= Cardinality(tasks)
  /\ \A t \in tasks : result[t] = "True" => flow[t] = "done"

\* C33 witness: the release has returned with one flow counted as a success
\* and returned True and the other counted as a failure and returned False.
C33_Witness ==
  /\ rel = "returned"
  /\ \E t, u \in tasks : result[t] = "True" /\ result[u] = "False"
  /\ stats.successful_downloads = 1
  /\ stats.failed_downloads = 1

\* C34: in every state of every interleaving of the flows, no more embeddings
\* and no more covers are counted than successful downloads, and no step
\* lowers a counter.
C34_EmbedsWithinSuccesses ==
  /\ [](/\ stats.metadata_embedded <= stats.successful_downloads
        /\ stats.covers_downloaded <= stats.successful_downloads)
  /\ [][\A c \in DOMAIN stats : stats'[c] >= stats[c]]_vars

\* C34 witness: two flows have written their files; one has fetched its cover
\* and embedded its metadata, the other is still fetching its lyrics.
C34_Witness ==
  /\ stats.successful_downloads = 2
  /\ stats.metadata_embedded = 1
  /\ stats.covers_downloaded = 1
  /\ \E t \in tasks : flow[t] = "lyrics"

\* The calls of make_request that have ended, by a return or a cancellation.
Ended == {t \in SlotCallers : pc[t] \in {"returned", "cancelled"}}

\* C35: a make_request call holds one slot from its admission to its end,
\* through the politeness delay, every attempt, every retry wait and every
\* 418 cool-down, and gives it back however it ends (payload, exhaustion,
\* cancellation): the free slots and the calls past the gate always add up
\* to concurrent_requests, all slots are free when no call is past the
\* gate, and every caller suspended at the gate is eventually admitted (or
\* is itself cancelled).
C35_SlotHeldAndReleased ==
  /\ [](semaphore + Cardinality(PastGate) = config.concurrent_requests)
  /\ []((\A t \in SlotCallers : pc[t] \in {"none", "gate", "returned", "cancelled"})
          => semaphore = config.concurrent_requests)
  /\ [][\A t \in SlotCallers :
          (pc[t] \in {"delay", "request", "cooldown", "backoff"}
             /\ pc'[t] \in {"returned", "cancelled"}) => semaphore' >= 1]_vars
  /\ \A t \in SlotCallers : (pc[t] = "gate") ~> (pc[t] \in {"delay", "cancelled"})

\* A caller waited at the gate while both slots were held, one holder was
\* cancelled in a retry wait and another returned after exhausting its
\* attempts, and the waiting caller has been admitted.
C35_Witness ==
  \E t, u, w \in SlotCallers :
    /\ pc[t] = "cancelled" /\ status[t] # "none"
    /\ pc[u] = "returned" /\ response[u] = "None"
    /\ pc[w] = "delay"
    /\ semaphore = config.concurrent_requests - 1

\* The seconds the call has slept in its retry waits.
RECURSIVE TotalSlept(_)
TotalSlept(n) == IF n = 0 THEN 0 ELSE TotalSlept(n - 1) + slept[n].wait

\* C36: a call that returns None after an ordinary failure of its last
\* attempt has slept after every attempt but the last; one that returns None
\* after a 418 on its last attempt has slept after every attempt, the last
\* wait being retry_delay * max_retries * 2.  A call that met only 418
\* responses has slept retry_delay * max_retries * (max_retries + 1) in all,
\* and one that met only ordinary failures
\* retry_delay * (max_retries - 1) * max_retries / 2.
C36_TotalWaits ==
  (pc[1] = "returned" /\ response[1] = "None") =>
    /\ status[1] \in OrdinaryFailures =>
         /\ Len(slept) = config.max_retries - 1
         /\ (\A n \in 1..Len(slept) : slept[n].after \in OrdinaryFailures) =>
              2 * TotalSlept(Len(slept)) =
                config.retry_delay * (config.max_retries - 1) * config.max_retries
    /\ status[1] = "teapot" =>
         /\ Len(slept) = config.max_retries
         /\ slept[config.max_retries].wait =
              config.retry_delay * config.max_retries * 2
         /\ (\A n \in 1..Len(slept) : slept[n].after = "teapot") =>
              TotalSlept(Len(slept)) =
                config.retry_delay * config.max_retries * (config.max_retries + 1)

\* C36 witness: with the defaults (5 attempts, retry_delay 3) a call that
\* met five 418 responses has slept 90 seconds when it returns None.
C36_Witness ==
  /\ config.max_retries = 5
  /\ pc[1] = "returned" /\ response[1] = "None" /\ status[1] = "teapot"
  /\ \A n \in 1..Len(slept) : slept[n].after = "teapot"
  /\ TotalSlept(Len(slept)) = 90

\* With the defaults a call that met five ordinary failures has slept 30
\* seconds, in four waits, when it returns None.
C36_OrdinaryOnly ==
  /\ config.max_retries = 5
  /\ pc[1] = "returned" /\ response[1] = "None"
  /\ \A n \in 1..Len(slept) : slept[n].after \in OrdinaryFailures
  /\ status[1] \in OrdinaryFailures
  /\ Len(slept) = 4 /\ TotalSlept(4) = 30

\* C37: a download_track call with embed_metadata disabled never awaits the
\* quality probe: from the track lookup it goes straight to get_stream_url,
\* which it calls with the requested tier; its `quality` is never replaced,
\* no probe result is ever stored, and it fails only at the stream-location
\* lookup.
C37_NoProbeWithoutEmbedding ==
  /\ []((resolve # "none" /\ ~args.embed_metadata) =>
          /\ resolve \in {"stream_url", "fetch", "failed"}
          /\ stream_quality = args.quality
          /\ quality = args.quality
          /\ quality_results = [q \in TierSet |-> "absent"])
  /\ [][(~args'.embed_metadata /\ resolve' = "failed" /\ resolve # "failed")
          => resolve = "stream_url"]_vars

\* The call asked for flac without embedding and get_stream_url, called
\* with flac, gave no location: the call has failed with no tier probed.
C37_Witness ==
  /\ ~args.embed_metadata
  /\ args.quality = "flac"
  /\ resolve = "failed"
  /\ stream_quality = "flac"

\* The track flows of the release that have their file open for writing.
Writing == {t \in Tracks : file_flow[t].stage = "writing"}

\* C38: no two track flows of a release have the same destination path open
\* for writing at the same time.
C38_NoSharedOpenFile ==
  \A t, u \in Writing : t # u => file_flow[t].filename # file_flow[u].filename

====
